---- MODULE Spec2Model ----
(***************************************************************************)
(* A model of the trust-boundary core of gotrue:                           *)
(*   - the admin user handlers of api/admin.go (adminUserUpdate,           *)
(*     adminUserCreate, adminUserDelete) over a transactional store,       *)
(*   - the redirect resolver, the private-address block list and the      *)
(*     noLocalTransport of the api helpers.                                *)
(***************************************************************************)
EXTENDS Integers, Sequences, FiniteSets, TLC

(***************************************************************************)
(* Bounds of the model.                                                    *)
(***************************************************************************)
\* user id slots of the users table
MaxUsers == 3
\* admin calls in one run of SpecAdminSeq
MaxCalls == 3

\* config.PasswordMinLength
PasswordMinLength == 2

VARIABLES
    users,      \* the persisted users table: id -> row
    auditLog,   \* the persisted audit log, oldest entry first
    clock,      \* time.Now()
    committed,  \* history: the admin calls whose transaction committed
    last,       \* history: the most recent admin call (kept when budget.full)
    budget,     \* calls left, and whether requests range over every field combination
    auth,       \* the tenant's JWT configuration and the most recent resolver call
    creates,    \* the adminUserCreate calls that run side by side
    conf,       \* the redirect configuration: SiteURL and URIAllowList
    resolved,   \* history: the most recent call of the redirect resolver
    heap,       \* the backing arrays of the block list's slices
    privateIPBlocks,  \* the slice header of the block list: array and len
    nextPtr,    \* the next *net.IPNet that net.ParseCIDR allocates
    writer,     \* the position of the amendment in progress
    amended,    \* history: the most recent amendment, and how many there were
    reader,     \* the position of an isPrivateIP check running beside amendments
    phase,      \* "startup", "serving", or "none" when the guard is not part of the run
    request,    \* the request in noLocalTransport.RoundTrip
    racers,     \* the connection attempts of the dialer's two racers
    roundTrips  \* RoundTrip calls side by side: their contexts and attempts

adminVars == <<users, auditLog, clock, committed, last, budget, auth, creates>>
redirectVars == <<conf, resolved>>
blockVars == <<heap, privateIPBlocks, nextPtr, writer, amended>>
egressVars == <<heap, privateIPBlocks, nextPtr, writer, amended, reader, phase,
                request, racers, roundTrips>>

\* no RoundTrip calls run side by side
NoRoundTrips == [ctxs |-> <<>>, calls |-> <<>>]

\* the egress guard is not part of the run
EgressIdle ==
    /\ heap = <<>>
    /\ privateIPBlocks = [array |-> 0, len |-> 0]
    /\ nextPtr = 0
    /\ writer = [pc |-> "idle"]
    /\ amended = [count |-> 0, op |-> "none"]
    /\ reader = [pc |-> "idle"]
    /\ phase = "none"
    /\ request = [st |-> "idle"]
    /\ racers = <<>>
    /\ roundTrips = NoRoundTrips

\* the claim and authorization resolver is not part of the run
NoAuth == [fn |-> "none"]
AuthIdle == auth = NoAuth

\* no adminUserCreate calls run side by side
NoCreates == [unique |-> FALSE, calls |-> <<>>]

NoConfig == [SiteURL |-> <<>>, URIAllowList |-> {}]
NoResolution == [fn |-> "none"]
\* the redirect resolver is not part of the run
RedirectIdle == conf = NoConfig /\ resolved = NoResolution

(***************************************************************************)
(* Values.                                                                 *)
(***************************************************************************)
UserIds == 1..MaxUsers
NilTime == -1
AdminActor == "admin-actor"

UserSignedUpAction == "user_signedup"
UserModifiedAction == "user_modified"
UserDeletedAction == "user_deleted"

Range(s) == {s[i] : i \in 1..Len(s)}

\* a string of n characters
Chars(n) == [i \in 1..n |-> "x"]

\* the stored form of a password
Hash(pw) == <<"hash">> \o pw

NoUser ==
    [exists |-> FALSE, aud |-> "", role |-> "", email |-> "", phone |-> "",
     emailConfirmed |-> FALSE, phoneConfirmed |-> FALSE, password |-> <<>>,
     appMetaData |-> {}, userMetaData |-> {}, bannedUntil |-> NilTime]

\* type adminUserParams; a nil *string or nil map is Has... = FALSE
adminUserParams ==
    [Aud |-> "", Role |-> "", Email |-> "", Phone |-> "",
     HasPassword |-> FALSE, Password |-> <<>>,
     EmailConfirm |-> FALSE, PhoneConfirm |-> FALSE,
     HasUserMetaData |-> FALSE, UserMetaData |-> {},
     HasAppMetaData |-> FALSE, AppMetaData |-> {},
     BanDuration |-> ""]

(***************************************************************************)
(* Errors.                                                                 *)
(***************************************************************************)
NoErr == [kind |-> "none", msg |-> "", cause |-> ""]
\* an error of the storage layer or of another collaborator, as it is returned
PlainErr(op) == [kind |-> "plain", msg |-> op, cause |-> ""]
badRequestError(msg) == [kind |-> "badRequest", msg |-> msg, cause |-> ""]
unprocessableEntityError(msg) == [kind |-> "unprocessable", msg |-> msg, cause |-> ""]
internalServerError(msg, e) == [kind |-> "internal", msg |-> msg, cause |-> e.msg]
invalidPasswordLengthError == unprocessableEntityError("Password should be at least N characters")
BanDurationMsg == "Invalid format for ban_duration"

\* time.ParseDuration that takes every string for no time at all
ParseDurationZero(d) == [ok |-> TRUE, value |-> 0]

\* time.ParseDuration on the duration strings of the model, in minutes
ParseDuration(d) ==
    CASE d = "1h" -> [ok |-> TRUE, value |-> 60]
      [] d = "30m" -> [ok |-> TRUE, value |-> 30]
      [] OTHER -> [ok |-> FALSE, value |-> 0]

(***************************************************************************)
(* The storage collaborator.  A transaction works on its own copy s of the *)
(* tables (s.users, s.auditLog); s.ops lists the calls made on it, s.err   *)
(* is the error the transaction function returns and s.failed the          *)
(* collaborator call that failed.  Every call may fail, so a step maps a   *)
(* set of states to the set of its outcomes.                               *)
(***************************************************************************)
SetRole(s, id, role) == [s EXCEPT !.users[id].role = role]
Confirm(s, id) == [s EXCEPT !.users[id].emailConfirmed = TRUE]
ConfirmPhone(s, id) == [s EXCEPT !.users[id].phoneConfirmed = TRUE]
UpdatePassword(s, id, pw) == [s EXCEPT !.users[id].password = Hash(pw)]
SetEmail(s, id, email) == [s EXCEPT !.users[id].email = email]
SetPhone(s, id, phone) == [s EXCEPT !.users[id].phone = phone]
MergeMetaData(old, new) == {p \in old : \A q \in new : q[1] # p[1]} \cup new
UpdateAppMetaData(s, id, m) ==
    [s EXCEPT !.users[id].appMetaData = MergeMetaData(@, m)]
UpdateUserMetaData(s, id, m) ==
    [s EXCEPT !.users[id].userMetaData = MergeMetaData(@, m)]
UpdateBannedUntil(s, id, t) == [s EXCEPT !.users[id].bannedUntil = t]
Create(s, id, u) == [s EXCEPT !.users[id] = u]
Destroy(s, id) == [s EXCEPT !.users[id] = NoUser]
NewAuditLogEntry(s, action, id, u) ==
    [s EXCEPT !.auditLog = Append(@,
        [action |-> action, actor |-> AdminActor, user_id |-> id,
         user_email |-> u.email, user_phone |-> u.phone])]

\* Exec with the request's condition dropped: the call is made whether or not
\* the request asks for it
ExecAlways(s, wanted, op, after) ==
    IF s.err # NoErr THEN {s}
    ELSE {[after EXCEPT !.ops = Append(s.ops, op)],
          [s EXCEPT !.err = PlainErr(op), !.ops = Append(@, op), !.failed = op]}

\* the outcomes of one call op on the transaction's connection in state s:
\* it succeeds and leaves `after`, or it fails; with an error pending the
\* function has returned, and without `wanted` the request does not ask for it
Exec(s, wanted, op, after) ==
    IF s.err # NoErr \/ ~wanted THEN {s}
    ELSE {[after EXCEPT !.ops = Append(s.ops, op)],
          [s EXCEPT !.err = PlainErr(op), !.ops = Append(@, op), !.failed = op]}

\* Fail with the return statement missing: the function goes on
FailNotReturned(s, err) == s

\* the transaction function returns err
Fail(s, err) == IF s.err # NoErr THEN s ELSE [s EXCEPT !.err = err]

\* the connection a transaction function gets
BeginTx(db) ==
    [users |-> db.users, auditLog |-> db.auditLog, err |-> NoErr,
     ops |-> <<>>, failed |-> "none"]

\* storage.Connection.Transaction: begin, run the function, commit when it
\* returned nil and roll back otherwise; `bodies` are the function's outcomes
Transaction(db, bodies) ==
    {[db |-> db, err |-> PlainErr("Begin"), committed |-> FALSE,
      ops |-> <<>>, failed |-> "Begin"]}
    \cup
    UNION {IF s.err # NoErr
           THEN {[db |-> db, err |-> s.err, committed |-> FALSE,
                  ops |-> s.ops, failed |-> s.failed]}
           ELSE {[db |-> [users |-> s.users, auditLog |-> s.auditLog],
                  err |-> NoErr, committed |-> TRUE, ops |-> s.ops,
                  failed |-> "none"],
                 [db |-> db, err |-> PlainErr("Commit"), committed |-> FALSE,
                  ops |-> s.ops, failed |-> "Commit"]} : s \in bodies}

\* sendJSON: the response is written after the transaction, and may fail
sendJSON(r) ==
    {r, [r EXCEPT !.err = PlainErr("sendJSON"), !.failed = "sendJSON"]}

(***************************************************************************)
(* adminUserUpdate                                                         *)
(***************************************************************************)
\* the function adminUserUpdate hands to Transaction, from the states S
adminUserUpdateTx(S, id, params, now) ==
    LET role(X) == UNION {Exec(s, params.Role # "", "SetRole",
                               SetRole(s, id, params.Role)) : s \in X}
        confirm(X) == UNION {Exec(s, params.EmailConfirm, "Confirm",
                                  Confirm(s, id)) : s \in X}
        confirmPhone(X) == UNION {Exec(s, params.PhoneConfirm, "ConfirmPhone",
                                       ConfirmPhone(s, id)) : s \in X}
        password(X) ==
            UNION {IF params.HasPassword /\ Len(params.Password) < PasswordMinLength
                   THEN {Fail(s, invalidPasswordLengthError)}
                   ELSE Exec(s, params.HasPassword, "UpdatePassword",
                             UpdatePassword(s, id, params.Password)) : s \in X}
        email(X) == UNION {Exec(s, params.Email # "", "SetEmail",
                                SetEmail(s, id, params.Email)) : s \in X}
        phone(X) == UNION {Exec(s, params.Phone # "", "SetPhone",
                                SetPhone(s, id, params.Phone)) : s \in X}
        appMetaData(X) ==
            UNION {Exec(s, params.HasAppMetaData, "UpdateAppMetaData",
                        UpdateAppMetaData(s, id, params.AppMetaData)) : s \in X}
        userMetaData(X) ==
            UNION {Exec(s, params.HasUserMetaData, "UpdateUserMetaData",
                        UpdateUserMetaData(s, id, params.UserMetaData)) : s \in X}
        ban(X) ==
            UNION {IF params.BanDuration = "" THEN {s}
                   ELSE IF params.BanDuration = "none"
                   THEN Exec(s, TRUE, "UpdateBannedUntil",
                             UpdateBannedUntil(s, id, NilTime))
                   ELSE IF ~ParseDuration(params.BanDuration).ok
                   THEN {Fail(s, badRequestError(BanDurationMsg))}
                   ELSE Exec(s, TRUE, "UpdateBannedUntil",
                             UpdateBannedUntil(s, id,
                                 now + ParseDuration(params.BanDuration).value))
                   : s \in X}
        audit(X) == UNION {Exec(s, TRUE, "NewAuditLogEntry",
                                NewAuditLogEntry(s, UserModifiedAction, id,
                                                 s.users[id])) : s \in X}
    IN  audit(ban(userMetaData(appMetaData(phone(email(password(
            confirmPhone(confirm(role(S))))))))))

\* the error adminUserUpdate returns for the transaction's error
adminUserUpdateError(err) ==
    IF err = invalidPasswordLengthError THEN err
    ELSE IF err.msg = BanDurationMsg THEN err
    ELSE internalServerError("Error updating user", err)

\* the outcomes of adminUserUpdate on user id of the database db at time now
adminUserUpdate(db, id, params, now) ==
    UNION {IF t.err # NoErr
           THEN {[t EXCEPT !.err = adminUserUpdateError(t.err)]}
           ELSE sendJSON(t)
           : t \in Transaction(db, adminUserUpdateTx({BeginTx(db)}, id, params, now))}

(***************************************************************************)
(* adminUserCreate                                                         *)
(***************************************************************************)
DefaultGroupName == "authenticated"
ValidEmails == {"ann@x.io", "new@x.io"}
ValidPhones == {"222", "333"}
GeneratedPassword == <<"generated">>

\* a.validateEmail, a.validatePhone: format validation
validateEmail(email) ==
    IF email \in ValidEmails THEN NoErr
    ELSE unprocessableEntityError("Unable to validate email address: invalid format")
validatePhone(phone) ==
    IF phone \in ValidPhones THEN NoErr
    ELSE unprocessableEntityError("Invalid phone number format")

\* models.IsDuplicatedEmail, models.IsDuplicatedPhone
IsDuplicatedEmail(db, email, aud) ==
    \E i \in UserIds : db.users[i].exists /\ db.users[i].email = email
                       /\ db.users[i].aud = aud
IsDuplicatedPhone(db, phone, aud) ==
    \E i \in UserIds : db.users[i].exists /\ db.users[i].phone = phone
                       /\ db.users[i].aud = aud

\* a request that ends before its transaction opens
Rejected(db, err, failed) ==
    [db |-> db, err |-> err, committed |-> FALSE, ops |-> <<>>, failed |-> failed]

\* models.NewUser and the fields adminUserCreate sets on it before the transaction
NewUser(params, aud, now) ==
    [exists |-> TRUE, aud |-> aud, role |-> "", email |-> params.Email,
     phone |-> params.Phone, emailConfirmed |-> FALSE, phoneConfirmed |-> FALSE,
     password |-> Hash(IF ~params.HasPassword \/ params.Password = <<>>
                       THEN GeneratedPassword ELSE params.Password),
     appMetaData |-> {<<"provider", "email">>},
     userMetaData |-> IF params.HasUserMetaData THEN params.UserMetaData ELSE {},
     bannedUntil |-> IF params.BanDuration = "" THEN NilTime
                     ELSE now + ParseDuration(params.BanDuration).value]

\* the function adminUserCreate hands to Transaction, from the states S
adminUserCreateTx(S, id, user, params) ==
    LET audit(X) == UNION {Exec(s, TRUE, "NewAuditLogEntry",
                                NewAuditLogEntry(s, UserSignedUpAction, id, user))
                           : s \in X}
        create(X) == UNION {Exec(s, TRUE, "Create", Create(s, id, user)) : s \in X}
        role(X) == UNION {Exec(s, TRUE, "SetRole",
                               SetRole(s, id, IF params.Role # "" THEN params.Role
                                              ELSE DefaultGroupName)) : s \in X}
        confirm(X) == UNION {Exec(s, params.EmailConfirm, "Confirm",
                                  Confirm(s, id)) : s \in X}
        confirmPhone(X) == UNION {Exec(s, params.PhoneConfirm, "ConfirmPhone",
                                       ConfirmPhone(s, id)) : s \in X}
    IN  confirmPhone(confirm(role(create(audit(S)))))

\* adminUserCreate without its checks: every request goes on to the transaction
adminUserCreateValidateNothing(db, params, aud) == {Rejected(db, NoErr, "none")}

\* the checks of adminUserCreate before its transaction: each stage passes a
\* request on or ends it; the outcome with err = NoErr goes on to the transaction
adminUserCreateValidate(db, params, aud) ==
    LET stop(err, failed) == Rejected(db, err, failed)
        required(X) ==
            {IF v.err = NoErr /\ params.Email = "" /\ params.Phone = ""
             THEN stop(unprocessableEntityError(
                      "Cannot create a user without either an email or phone"), "none")
             ELSE v : v \in X}
        email(X) ==
            UNION {IF v.err # NoErr \/ params.Email = "" THEN {v}
                   ELSE IF validateEmail(params.Email) # NoErr
                   THEN {stop(validateEmail(params.Email), "none")}
                   ELSE {stop(internalServerError("Database error checking email",
                                  PlainErr("IsDuplicatedEmail")), "IsDuplicatedEmail"),
                         IF IsDuplicatedEmail(db, params.Email, aud)
                         THEN stop(unprocessableEntityError(
                                  "Email address already registered by another user"),
                                  "none")
                         ELSE v}
                   : v \in X}
        phone(X) ==
            UNION {IF v.err # NoErr \/ params.Phone = "" THEN {v}
                   ELSE IF validatePhone(params.Phone) # NoErr
                   THEN {stop(validatePhone(params.Phone), "none")}
                   ELSE {stop(internalServerError("Database error checking phone",
                                  PlainErr("IsDuplicatedPhone")), "IsDuplicatedPhone"),
                         IF IsDuplicatedPhone(db, params.Phone, aud)
                         THEN stop(unprocessableEntityError(
                                  "Phone number already registered by another user"),
                                  "none")
                         ELSE v}
                   : v \in X}
        generate(X) ==
            UNION {IF v.err # NoErr \/ (params.HasPassword /\ params.Password # <<>>)
                   THEN {v}
                   ELSE {stop(internalServerError("Error generating password",
                                  PlainErr("password.Generate")), "password.Generate"),
                         v}
                   : v \in X}
        newUser(X) ==
            UNION {IF v.err # NoErr THEN {v}
                   ELSE {stop(internalServerError("Error creating user",
                                  PlainErr("NewUser")), "NewUser"), v}
                   : v \in X}
        ban(X) ==
            {IF v.err = NoErr /\ params.BanDuration # ""
                /\ ~ParseDuration(params.BanDuration).ok
             THEN stop(badRequestError(BanDurationMsg), "none")
             ELSE v : v \in X}
    IN  ban(newUser(generate(phone(email(required({stop(NoErr, "none")}))))))

\* the error adminUserCreate returns for the transaction's error
adminUserCreateError(err) ==
    IF err.msg = BanDurationMsg THEN err
    ELSE internalServerError("Database error creating new user", err)

\* the outcomes of adminUserCreate; id is the identifier models.NewUser draws
adminUserCreate(db, id, params, reqAud, now) ==
    LET aud == IF params.Aud # "" THEN params.Aud ELSE reqAud
    IN  UNION {IF v.err # NoErr THEN {v}
               ELSE UNION {IF t.err # NoErr
                           THEN {[t EXCEPT !.err = adminUserCreateError(t.err)]}
                           ELSE sendJSON(t)
                           : t \in Transaction(db,
                                 adminUserCreateTx({BeginTx(db)}, id,
                                     NewUser(params, aud, now), params))}
               : v \in adminUserCreateValidate(db, params, aud)}

(***************************************************************************)
(* adminUserDelete                                                         *)
(***************************************************************************)
\* adminUserDeleteTx without its audit entry
adminUserDeleteTxNoAudit(S, id) ==
    UNION {Exec(s, TRUE, "Destroy", Destroy(s, id)) : s \in S}

\* adminUserDeleteTx with the error of the audit insert not checked
adminUserDeleteTxUnchecked(S, id) ==
    LET audit(X) == UNION {{[a EXCEPT !.err = NoErr]
                            : a \in Exec(s, TRUE, "NewAuditLogEntry",
                                     NewAuditLogEntry(s, UserDeletedAction, id,
                                                      s.users[id]))} : s \in X}
        destroy(X) == UNION {Exec(s, TRUE, "Destroy", Destroy(s, id)) : s \in X}
    IN  destroy(audit(S))

\* the function adminUserDelete hands to Transaction, from the states S
adminUserDeleteTx(S, id) ==
    LET wrap(s, op, msg) ==
            IF s.failed = op /\ s.err.kind = "plain"
            THEN [s EXCEPT !.err = internalServerError(msg, s.err)] ELSE s
        audit(X) == UNION {{wrap(a, "NewAuditLogEntry", "Error recording audit log entry")
                            : a \in Exec(s, TRUE, "NewAuditLogEntry",
                                     NewAuditLogEntry(s, UserDeletedAction, id,
                                                      s.users[id]))} : s \in X}
        destroy(X) == UNION {{wrap(a, "Destroy", "Database error deleting user")
                              : a \in Exec(s, TRUE, "Destroy", Destroy(s, id))}
                             : s \in X}
    IN  destroy(audit(S))

\* the outcomes of adminUserDelete on user id of the database db
adminUserDelete(db, id) ==
    UNION {IF t.err # NoErr THEN {t} ELSE sendJSON(t)
           : t \in Transaction(db, adminUserDeleteTx({BeginTx(db)}, id))}

(***************************************************************************)
(* The admin API as a state machine.                                       *)
(***************************************************************************)
\* the audience a.requestAud gives the create requests of the model
RequestAud == "aud1"

\* the users table the service starts on: two users of earlier sign-ups
InitialUsers ==
    [i \in UserIds |->
        IF i = 1
        THEN [NoUser EXCEPT !.exists = TRUE, !.aud = "aud1",
                            !.role = DefaultGroupName, !.email = "ann@x.io",
                            !.phone = "111", !.password = Hash(Chars(PasswordMinLength)),
                            !.appMetaData = {<<"provider", "email">>}]
        ELSE IF i = 2
        THEN [NoUser EXCEPT !.exists = TRUE, !.aud = "aud2",
                            !.role = "admin", !.phone = "222",
                            !.emailConfirmed = TRUE,
                            !.password = Hash(Chars(PasswordMinLength)),
                            !.appMetaData = {<<"provider", "phone">>},
                            !.userMetaData = {<<"name", "old">>},
                            !.bannedUntil = 30]
        ELSE NoUser]

Passwords == {Chars(PasswordMinLength - 1), Chars(PasswordMinLength)}

\* every combination of the optional fields of an update request
AllUpdateParams ==
    {[adminUserParams EXCEPT
         !.Role = role, !.EmailConfirm = ec, !.PhoneConfirm = pc,
         !.HasPassword = pw # <<>>, !.Password = pw,
         !.Email = email, !.Phone = phone,
         !.HasAppMetaData = am, !.AppMetaData = IF am THEN {<<"plan", "pro">>} ELSE {},
         !.HasUserMetaData = um, !.UserMetaData = IF um THEN {<<"name", "new">>} ELSE {},
         !.BanDuration = ban] :
       role \in {"", "admin"}, ec \in BOOLEAN, pc \in BOOLEAN,
       pw \in {<<>>} \cup Passwords,
       email \in {"", "new@x.io"}, phone \in {"", "333"},
       am \in BOOLEAN, um \in BOOLEAN, ban \in {"", "none", "1h", "bogus"}}

\* the update requests of a run of several calls
SeqUpdateParams ==
    { adminUserParams,
      [adminUserParams EXCEPT !.Role = "admin"],
      [adminUserParams EXCEPT !.Role = "admin", !.HasPassword = TRUE,
                              !.Password = Chars(PasswordMinLength - 1)],
      [adminUserParams EXCEPT !.Email = "new@x.io", !.EmailConfirm = TRUE],
      [adminUserParams EXCEPT !.Phone = "333", !.BanDuration = "bogus"],
      [adminUserParams EXCEPT !.BanDuration = "1h"],
      [adminUserParams EXCEPT !.BanDuration = "none",
                              !.HasUserMetaData = TRUE,
                              !.UserMetaData = {<<"name", "new">>}] }

\* every combination of the fields of a create request
AllCreateParams ==
    {[adminUserParams EXCEPT
         !.Aud = aud, !.Role = role, !.EmailConfirm = ec, !.PhoneConfirm = pc,
         !.HasPassword = hp, !.Password = IF hp THEN pw ELSE <<>>,
         !.Email = email, !.Phone = phone,
         !.HasUserMetaData = um, !.UserMetaData = IF um THEN {<<"name", "new">>} ELSE {},
         !.BanDuration = ban] :
       aud \in {"", "aud2"}, role \in {"", "admin"}, ec \in BOOLEAN, pc \in BOOLEAN,
       hp \in BOOLEAN, pw \in {<<>>, Chars(PasswordMinLength)},
       email \in {"", "ann@x.io", "new@x.io", "not-an-email"},
       phone \in {"", "222", "333", "+"},
       um \in BOOLEAN, ban \in {"", "none", "1h", "bogus"}}

\* the create requests of a run of several calls
SeqCreateParams ==
    { adminUserParams,
      [adminUserParams EXCEPT !.Email = "new@x.io"],
      [adminUserParams EXCEPT !.Email = "ann@x.io"],
      [adminUserParams EXCEPT !.Email = "ann@x.io", !.Aud = "aud2",
                              !.EmailConfirm = TRUE],
      [adminUserParams EXCEPT !.Phone = "333", !.Role = "admin",
                              !.PhoneConfirm = TRUE, !.BanDuration = "1h"],
      [adminUserParams EXCEPT !.Phone = "333", !.BanDuration = "bogus"] }

UpdateRequests == IF budget.full THEN AllUpdateParams ELSE SeqUpdateParams
CreateRequests == IF budget.full THEN AllCreateParams ELSE SeqCreateParams

NoCall ==
    [op |-> "none", id |-> 0, params |-> adminUserParams, failed |-> "none",
     preUsers |-> InitialUsers, preAuditLog |-> <<>>, err |-> NoErr,
     committed |-> FALSE, ops |-> <<>>, now |-> 0]

\* the database a handler starts on
Db == [users |-> users, auditLog |-> auditLog]

\* the end of a call with outcome r: the tables are what the call persisted
Finish(op, action, id, params, r) ==
    /\ users' = r.db.users
    /\ auditLog' = r.db.auditLog
    /\ clock' = clock + 1
    /\ committed' = IF r.committed
                    THEN Append(committed, [action |-> action, user_id |-> id])
                    ELSE committed
    /\ last' = IF budget.full
               THEN [op |-> op, id |-> id, params |-> params, failed |-> r.failed,
                     preUsers |-> users, preAuditLog |-> auditLog, err |-> r.err,
                     committed |-> r.committed, ops |-> r.ops, now |-> clock]
               ELSE NoCall
    /\ budget' = [budget EXCEPT !.calls = @ - 1]
    /\ UNCHANGED <<auth, creates, redirectVars, egressVars>>

\* PUT /admin/users/{user_id}: loadUser found the row
AdminUserUpdate ==
    /\ budget.calls > 0
    /\ \E id \in UserIds, params \in UpdateRequests :
          /\ users[id].exists
          /\ \E r \in adminUserUpdate(Db, id, params, clock) :
                Finish("update", UserModifiedAction, id, params, r)

\* POST /admin/users: the new user gets the first free identifier
AdminUserCreate ==
    /\ budget.calls > 0
    /\ \E id \in UserIds, params \in CreateRequests :
          /\ ~users[id].exists
          /\ \A j \in 1..(id - 1) : users[j].exists
          /\ \E r \in adminUserCreate(Db, id, params, RequestAud, clock) :
                Finish("create", UserSignedUpAction, id, params, r)

\* DELETE /admin/users/{user_id}: loadUser found the row
AdminUserDelete ==
    /\ budget.calls > 0
    /\ \E id \in UserIds :
          /\ users[id].exists
          /\ \E r \in adminUserDelete(Db, id) :
                Finish("delete", UserDeletedAction, id, adminUserParams, r)

\* time.Now() at the one call of a run over every request
CallTimes == {0, 7}

AdminInit(calls, full) ==
    /\ users = InitialUsers
    /\ auditLog = <<>>
    /\ clock \in IF full THEN CallTimes ELSE {0}
    /\ committed = <<>>
    /\ last = NoCall
    /\ budget = [calls |-> calls, full |-> full]
    /\ AuthIdle
    /\ creates = NoCreates
    /\ RedirectIdle
    /\ EgressIdle

\* the admin API is not part of the run
AdminIdle ==
    /\ users = InitialUsers
    /\ auditLog = <<>>
    /\ clock = 0
    /\ committed = <<>>
    /\ last = NoCall
    /\ budget = [calls |-> 0, full |-> FALSE]
    /\ AuthIdle
    /\ creates = NoCreates

AdminNext == AdminUserUpdate \/ AdminUserCreate \/ AdminUserDelete

vars == <<users, auditLog, clock, committed, last, budget, auth, creates, conf,
          resolved,
          heap, privateIPBlocks, nextPtr, writer, amended, reader, phase, request,
          racers, roundTrips>>

\* runs of MaxCalls admin calls
SpecAdminSeq == AdminInit(MaxCalls, FALSE) /\ [][AdminNext]_vars
\* one admin call, over every request
SpecAdminCall == AdminInit(1, TRUE) /\ [][AdminNext]_vars

(***************************************************************************)
(* Claims on the admin handlers.                                           *)
(***************************************************************************)
\* the audit log holds, in order, one entry of the right kind and user for
\* every call that committed, and nothing else
AuditMatchesCommitted ==
    /\ Len(auditLog) = Len(committed)
    /\ \A i \in 1..Len(auditLog) :
          /\ auditLog[i].action = committed[i].action
          /\ auditLog[i].user_id = committed[i].user_id

\* a step that changes the users table inserts, changes or deletes one row and
\* appends the audit entry of that change; a call that did not commit changes
\* neither table
MutationIsAudited ==
    /\ users' # users =>
          \E id \in UserIds :
             /\ \A j \in UserIds \ {id} : users'[j] = users[j]
             /\ Len(auditLog') = Len(auditLog) + 1
             /\ SubSeq(auditLog', 1, Len(auditLog)) = auditLog
             /\ auditLog'[Len(auditLog')].user_id = id
             /\ auditLog'[Len(auditLog')].action =
                   IF ~users[id].exists THEN UserSignedUpAction
                   ELSE IF ~users'[id].exists THEN UserDeletedAction
                   ELSE UserModifiedAction
    /\ committed' = committed => users' = users /\ auditLog' = auditLog
    /\ committed' # committed => Len(auditLog') = Len(auditLog) + 1

\* C1: after any sequence of adminUserCreate, adminUserUpdate and
\* adminUserDelete calls, each of which may fail at any sub-step or at commit,
\* the audit log holds exactly one entry (user signed up, user modified, user
\* deleted) for every call that committed, also for an update without field
\* changes, and none for a call that did not; no insert, field change or
\* deletion of a user is persisted without its audit entry.
C1_AuditExactlyOncePerCommit ==
    []AuditMatchesCommitted /\ [][MutationIsAudited]_vars

\* a run with a committed update that changed a row, a committed call of
\* another kind and a call that failed
C1_Witness ==
    /\ budget.calls = 0 /\ ~budget.full
    /\ Len(committed) = MaxCalls - 1
    /\ users # InitialUsers
    /\ \E i \in 1..Len(committed) : committed[i].action = UserModifiedAction
    /\ \E i \in 1..Len(committed) : committed[i].action # UserModifiedAction

\* the steps of the function adminUserUpdate hands to Transaction
UpdateSteps ==
    {"SetRole", "Confirm", "ConfirmPhone", "UpdatePassword", "SetEmail",
     "SetPhone", "UpdateAppMetaData", "UpdateUserMetaData", "UpdateBannedUntil",
     "NewAuditLogEntry"}

\* a step of the last update failed: a storage call, the minimum-length check
\* of the password or the parse of the ban duration
UpdateStepFailed ==
    /\ last.op = "update"
    /\ \/ last.failed \in UpdateSteps
       \/ last.params.HasPassword /\ Len(last.params.Password) < PasswordMinLength
       \/ last.params.BanDuration \notin {"", "none"}
          /\ ~ParseDuration(last.params.BanDuration).ok

\* C2: when any step of adminUserUpdate fails (a sub-mutation, the password
\* length check, an unparseable ban duration, the audit insert), the persisted
\* users and the persisted audit log are exactly as before the call.
C2_FailedUpdateLeavesNoTrace ==
    UpdateStepFailed => users = last.preUsers /\ auditLog = last.preAuditLog

\* an update whose ban duration does not parse after two sub-mutations were applied
C2_Witness ==
    /\ UpdateStepFailed
    /\ last.params.BanDuration = "bogus"
    /\ last.ops = <<"SetRole", "SetEmail">>
    /\ last.preUsers[last.id].role # last.params.Role

\* C3: adminUserDelete inserts the audit entry 'user deleted' before it
\* destroys the row, in one transaction: when the audit insert fails the row
\* still exists, when the destruction fails the audit entry is not persisted,
\* and the row is absent after the call only if the entry is persisted.
C3_DeleteAuditsBeforeDestroy ==
    last.op = "delete" =>
       /\ last.ops \in {<<>>, <<"NewAuditLogEntry">>, <<"NewAuditLogEntry", "Destroy">>}
       /\ last.failed = "NewAuditLogEntry" => users[last.id].exists
       /\ last.failed = "Destroy" => auditLog = last.preAuditLog
       /\ ~users[last.id].exists =>
             /\ Len(auditLog) = Len(last.preAuditLog) + 1
             /\ auditLog[Len(auditLog)].action = UserDeletedAction
             /\ auditLog[Len(auditLog)].user_id = last.id
             /\ auditLog[Len(auditLog)].user_email = last.preUsers[last.id].email

\* a delete whose row destruction failed after the audit insert
C3_Witness ==
    /\ last.op = "delete"
    /\ last.failed = "Destroy"
    /\ last.ops = <<"NewAuditLogEntry", "Destroy">>
    /\ users[last.id].exists

\* the last call returned an error and persisted nothing
CallFailed == last.op # "none" /\ last.err # NoErr /\ ~last.committed

\* no collaborator call failed: the handler refused the request itself
ClientCaused == last.failed = "none"

\* the error the caller gets is the client error as it was made, or an internal
\* error around the error of the collaborator call that failed
ErrorClassified ==
    IF ClientCaused
    THEN last.err.kind \in {"badRequest", "unprocessable"} /\ last.err.cause = ""
    ELSE last.err.kind = "internal" /\ last.err.cause = last.failed

\* C11: after a failed adminUserUpdate, adminUserCreate or adminUserDelete the
\* caller gets the original error exactly when the cause is a client-caused
\* failure; every other failure (a storage sub-mutation, the audit insert, the
\* begin or the commit of the transaction) reaches the caller as an internal
\* error.
C11_ClientErrorsPassOthersWrapped == CallFailed => ErrorClassified

\* the durations of the update requests, in minutes
BanMinutes == [d \in {"1h"} |-> 60]

\* C18: a successful adminUserUpdate with the ban duration "none" persists no
\* ban expiry, with any other parseable ban duration D it persists the time of
\* the call plus D, and with an empty ban duration it leaves the persisted ban
\* expiry as it was; it writes exactly one audit entry 'user modified'.
C18_BanExpiryFollowsDuration ==
    (last.op = "update" /\ last.committed) =>
       /\ users[last.id].bannedUntil =
             IF last.params.BanDuration = ""
             THEN last.preUsers[last.id].bannedUntil
             ELSE IF last.params.BanDuration = "none" THEN NilTime
             ELSE last.now + BanMinutes[last.params.BanDuration]
       /\ Len(auditLog) = Len(last.preAuditLog) + 1
       /\ SubSeq(auditLog, 1, Len(last.preAuditLog)) = last.preAuditLog
       /\ auditLog[Len(auditLog)].action = UserModifiedAction
       /\ auditLog[Len(auditLog)].user_id = last.id

\* an update of the ban duration alone, to one hour from a call at a later time
C18_Witness ==
    /\ last.op = "update" /\ last.committed
    /\ last.params = [adminUserParams EXCEPT !.BanDuration = "1h"]
    /\ last.now = 7
    /\ last.preUsers[last.id].bannedUntil = 30
    /\ users[last.id].bannedUntil = 67
    /\ Len(auditLog) = 1

\* the metadata map a merge of the request's map `new` into `old` leaves: the
\* keys the request names get its values, every other pair stays
MetaDataAfter(old, new) ==
    {q \in old : q[1] \notin {n[1] : n \in new}} \cup new

\* C21: a successful adminUserUpdate changes only the fields its request
\* names, each independently of the others: the role only with a non-empty
\* role, the email and phone confirmation only with a true flag, the password
\* only with a password present, the email and the phone only when non-empty,
\* the app and user metadata only with the map present, the ban expiry only
\* with a non-empty ban duration; every other persisted field of the target
\* user and every other user's record is as it was before the call.
C21_UpdateChangesOnlyNamedFields ==
    (last.op = "update" /\ last.committed) =>
       LET p == last.params
           pre == last.preUsers[last.id]
           post == users[last.id]
       IN  /\ post.role = IF p.Role # "" THEN p.Role ELSE pre.role
           /\ post.emailConfirmed = (p.EmailConfirm \/ pre.emailConfirmed)
           /\ post.phoneConfirmed = (p.PhoneConfirm \/ pre.phoneConfirmed)
           /\ post.password = IF p.HasPassword THEN <<"hash">> \o p.Password
                                               ELSE pre.password
           /\ post.email = IF p.Email # "" THEN p.Email ELSE pre.email
           /\ post.phone = IF p.Phone # "" THEN p.Phone ELSE pre.phone
           /\ post.appMetaData =
                 IF p.HasAppMetaData
                 THEN MetaDataAfter(pre.appMetaData, p.AppMetaData)
                 ELSE pre.appMetaData
           /\ post.userMetaData =
                 IF p.HasUserMetaData
                 THEN MetaDataAfter(pre.userMetaData, p.UserMetaData)
                 ELSE pre.userMetaData
           /\ p.BanDuration = "" => post.bannedUntil = pre.bannedUntil
           /\ post.exists = pre.exists
           /\ post.aud = pre.aud
           /\ \A j \in UserIds \ {last.id} : users[j] = last.preUsers[j]

\* an update of the second user that names the email, the phone confirmation
\* and the user metadata, and nothing else
C21_Witness ==
    /\ last.op = "update" /\ last.committed /\ last.id = 2
    /\ last.params = [adminUserParams EXCEPT
                         !.Email = "new@x.io", !.PhoneConfirm = TRUE,
                         !.HasUserMetaData = TRUE,
                         !.UserMetaData = {<<"name", "new">>}]
    /\ users[2] = [last.preUsers[2] EXCEPT
                      !.email = "new@x.io", !.phoneConfirmed = TRUE,
                      !.userMetaData = {<<"name", "new">>}]
    /\ users[2].role = "admin" /\ users[2].bannedUntil = 30
    /\ users[2].appMetaData = {<<"provider", "phone">>}
    /\ users[1] = last.preUsers[1]

\* the audience of the last create request
CreateAud == IF last.params.Aud # "" THEN last.params.Aud ELSE RequestAud

\* a user of the audience held the e-mail address before the last call
EmailRegistered ==
    \E i \in UserIds : /\ last.preUsers[i].exists
                       /\ last.preUsers[i].aud = CreateAud
                       /\ last.preUsers[i].email = last.params.Email

\* a user of the audience held the phone number before the last call
PhoneRegistered ==
    \E i \in UserIds : /\ last.preUsers[i].exists
                       /\ last.preUsers[i].aud = CreateAud
                       /\ last.preUsers[i].phone = last.params.Phone

\* the last create request is one adminUserCreate refuses before its transaction
CreateRefused ==
    /\ last.op = "create"
    /\ \/ last.params.Email = "" /\ last.params.Phone = ""
       \/ last.params.Email # "" /\ last.params.Email \notin ValidEmails
       \/ last.params.Email # "" /\ EmailRegistered
       \/ last.params.Phone # "" /\ last.params.Phone \notin ValidPhones
       \/ last.params.Phone # "" /\ PhoneRegistered
       \/ last.params.BanDuration # "" /\ ~ParseDuration(last.params.BanDuration).ok

\* C12: an adminUserCreate call refused before its transaction opens (neither
\* email nor phone, a malformed email or phone, an email or phone already
\* registered in the audience, an unparseable ban duration) fails, opens no
\* transaction, creates no user row and writes no audit entry; unless a
\* collaborator call failed first, its error is a client or validation error.
C12_RefusedCreateLeavesNoTrace ==
    CreateRefused =>
       /\ last.err # NoErr
       /\ ~last.committed
       /\ last.ops = <<>>
       /\ users = last.preUsers
       /\ auditLog = last.preAuditLog
       /\ last.failed = "none" =>
             last.err.kind \in {"badRequest", "unprocessable"}

\* a create with an email that a user of the same audience holds
C12_Witness ==
    /\ CreateRefused
    /\ last.params.Email = "ann@x.io" /\ EmailRegistered
    /\ last.params.Phone = "" /\ last.params.BanDuration = ""
    /\ last.err = unprocessableEntityError(
                      "Email address already registered by another user")
    /\ users = InitialUsers /\ auditLog = <<>>

(***************************************************************************)
(* adminUserCreate calls side by side.  Each call runs the statements of   *)
(* the handler in order; the other call may run between any two of them.   *)
(* What a transaction wrote is seen by the other call once it committed.   *)
(* creates.unique says whether the storage layer has a uniqueness          *)
(* constraint on (audience, email): the handler does not know.             *)
(***************************************************************************)
Creators == {1, 2}

\* the users table after the second user of InitialUsers was deleted
RaceUsers == [i \in UserIds |-> IF i = 1 THEN InitialUsers[1] ELSE NoUser]

\* the identifier models.NewUser draws for the call of creator p
NewUserId(p) == p + 1

RaceCreateParams ==
    {[adminUserParams EXCEPT !.Email = email, !.Aud = aud] :
        email \in {"new@x.io", "ann@x.io"}, aud \in {"", "aud2"}}

IdleCreate == [pc |-> "idle"]

\* the transaction function of the call, run to its end without a failure
CreateTxDone(db, id, user, params) ==
    CHOOSE s \in adminUserCreateTx({BeginTx(db)}, id, user, params) : s.err = NoErr

\* a committed row holds the e-mail address of `user` in its audience
EmailTaken(db, user) ==
    \E i \in UserIds : /\ db[i].exists
                       /\ db[i].aud = user.aud
                       /\ db[i].email = user.email

\* a storage layer that accepts every insert
InsertRejectedNever(unique, db, user) == FALSE

\* the storage layer refuses tx.Create(user): its uniqueness constraint, if it
\* has one, finds a committed row with the e-mail address in the audience
InsertRejected(unique, db, user) == unique /\ EmailTaken(db, user)

\* with a uniqueness constraint an insert waits for the transaction of another
\* call that inserted the same (audience, email) and has not ended
InsertWaits(p, user) ==
    /\ creates.unique
    /\ \E q \in Creators \ {p} : /\ creates.calls[q].pc = "inserted"
                                 /\ creates.calls[q].user.aud = user.aud
                                 /\ creates.calls[q].user.email = user.email

createFrame == <<clock, last, budget, auth, redirectVars, egressVars>>

\* the end of the call of creator p with error err, nothing persisted
CreateRollback(p, err, failed) ==
    /\ creates' = [creates EXCEPT !.calls[p] =
                      [@ EXCEPT !.pc = "done", !.err = err, !.failed = failed,
                                !.committed = FALSE]]
    /\ UNCHANGED <<users, auditLog, committed, createFrame>>

\* adminUserCreate up to a.db.Transaction: the checks on the committed table
CreateValidate(p) ==
    /\ creates.calls[p].pc = "idle"
    /\ \E params \in RaceCreateParams :
          \E aud \in {IF params.Aud # "" THEN params.Aud ELSE RequestAud} :
             \E v \in adminUserCreateValidate(Db, params, aud) :
                creates' = [creates EXCEPT !.calls[p] =
                    [pc |-> IF v.err = NoErr THEN "validated" ELSE "done",
                     params |-> params, user |-> NewUser(params, aud, clock),
                     err |-> v.err, failed |-> v.failed, committed |-> FALSE]]
    /\ UNCHANGED <<users, auditLog, committed, createFrame>>

\* the transaction begins and models.NewAuditLogEntry inserts the entry
CreateAudit(p) ==
    /\ creates.calls[p].pc = "validated"
    /\ creates' = [creates EXCEPT !.calls[p].pc = "audited"]
    /\ UNCHANGED <<users, auditLog, committed, createFrame>>

\* tx.Create(user)
CreateInsert(p) ==
    /\ creates.calls[p].pc = "audited"
    /\ ~InsertWaits(p, creates.calls[p].user)
    /\ IF InsertRejected(creates.unique, users, creates.calls[p].user)
       THEN CreateRollback(p, adminUserCreateError(PlainErr("Create")), "Create")
       ELSE /\ creates' = [creates EXCEPT !.calls[p].pc = "inserted"]
            /\ UNCHANGED <<users, auditLog, committed, createFrame>>

\* SetRole, Confirm and ConfirmPhone, and the commit: the row and the audit
\* entry of the call are persisted
CreateCommit(p) ==
    /\ creates.calls[p].pc = "inserted"
    /\ \E s \in {CreateTxDone(Db, NewUserId(p), creates.calls[p].user,
                              creates.calls[p].params)} :
          /\ users' = [users EXCEPT ![NewUserId(p)] = s.users[NewUserId(p)]]
          /\ auditLog' = Append(auditLog, s.auditLog[Len(s.auditLog)])
    /\ committed' = Append(committed, [action |-> UserSignedUpAction,
                                       user_id |-> NewUserId(p)])
    /\ creates' = [creates EXCEPT !.calls[p] =
                      [@ EXCEPT !.pc = "done", !.committed = TRUE]]
    /\ UNCHANGED createFrame

\* a storage call of the transaction, its begin or its commit fails
CreateFails(p) ==
    /\ creates.calls[p].pc \in {"validated", "audited", "inserted"}
    /\ \E op \in {"Begin", "NewAuditLogEntry", "SetRole", "Commit"} :
          /\ op = "Begin" => creates.calls[p].pc = "validated"
          /\ op = "NewAuditLogEntry" => creates.calls[p].pc = "validated"
          /\ op \in {"SetRole", "Commit"} => creates.calls[p].pc = "inserted"
          /\ CreateRollback(p, adminUserCreateError(PlainErr(op)), op)

CreateRaceInit ==
    /\ users = RaceUsers
    /\ auditLog = <<>>
    /\ clock = 0
    /\ committed = <<>>
    /\ last = NoCall
    /\ budget = [calls |-> 0, full |-> FALSE]
    /\ AuthIdle
    /\ \E unique \in BOOLEAN :
          creates = [unique |-> unique, calls |-> [p \in Creators |-> IdleCreate]]
    /\ RedirectIdle
    /\ EgressIdle

CreateRaceNext ==
    \E p \in Creators :
       \/ CreateValidate(p)
       \/ CreateAudit(p)
       \/ CreateInsert(p)
       \/ CreateCommit(p)
       \/ CreateFails(p)

\* two adminUserCreate calls side by side
SpecCreateRace == CreateRaceInit /\ [][CreateRaceNext]_vars

\* no two rows of an audience hold the same e-mail address
AtMostOnePerEmail ==
    \A i, j \in UserIds :
       (/\ i # j /\ users[i].exists /\ users[j].exists
        /\ users[i].email # "" /\ users[i].email = users[j].email)
       => users[i].aud # users[j].aud

\* the calls of both creators were for one e-mail address in one audience
SameEmail ==
    /\ \A p \in Creators : creates.calls[p].pc # "idle"
    /\ creates.calls[1].user.email = creates.calls[2].user.email
    /\ creates.calls[1].user.aud = creates.calls[2].user.aud

\* the call of creator p persisted neither a row nor an audit entry
PersistedNothing(p) ==
    /\ ~users[NewUserId(p)].exists
    /\ \A i \in 1..Len(auditLog) : auditLog[i].user_id # NewUserId(p)

\* C19: the duplicate check of adminUserCreate is not atomic with the insert:
\* two calls for one e-mail address in one audience can both pass the check and
\* both reach the insert in their transactions.  'At most one user per
\* (audience, email)' holds when the storage layer rejects the second insert,
\* and then the rejected call persists no row and no audit entry; when both
\* calls commit, the storage layer has no such constraint and two rows hold
\* the address.
C19_DuplicateCheckRaces ==
    /\ creates.unique => AtMostOnePerEmail
    /\ \A p \in Creators :
          (creates.calls[p].pc = "done" /\ ~creates.calls[p].committed)
          => PersistedNothing(p)
    /\ (SameEmail /\ \A p \in Creators : creates.calls[p].pc = "done"
                                         /\ creates.calls[p].committed)
       => ~creates.unique /\ ~AtMostOnePerEmail

\* both calls passed the duplicate check and reached the insert; the first
\* committed and the storage layer rejected the insert of the second
C19_Witness ==
    /\ creates.unique
    /\ SameEmail
    /\ creates.calls[1].pc = "done" /\ creates.calls[1].committed
    /\ creates.calls[2].pc = "done" /\ creates.calls[2].failed = "Create"
    /\ users[NewUserId(1)].exists /\ PersistedNothing(2)
    /\ Len(auditLog) = 1

(***************************************************************************)
(* The claim and authorization resolver: getUserFromClaims, isAdmin and    *)
(* requestAud.  A subject is the sequence of its tokens; the text of a     *)
(* user identifier is a run of zeros and a last digit, plain, with the     *)
(* prefix "urn:uuid:" or in braces.                                        *)
(***************************************************************************)
Zeros == "00000000-0000-0000-0000-00000000000"
\* models.SystemUserUUID (uuid.Nil) and models.SystemUserID
SystemUserUUID == 0
SystemUserID == <<"0">>

\* the identifiers: uuid.Nil and the slots of the users table
UUIDs == {SystemUserUUID} \cup UserIds

\* uuid.UUID.String: the canonical text
UUIDString(id) == <<Zeros, ToString(id)>>

\* uuid.FromString that takes any text for the first user's identifier
FromStringAny(text) == [err |-> FALSE, id |-> 1]

\* uuid.FromString: the canonical, the URN and the braced text of an identifier
FromString(text) ==
    LET body == IF Len(text) = 3 /\ text[1] = "urn:uuid:" THEN SubSeq(text, 2, 3)
                ELSE IF Len(text) = 4 /\ text[1] = "{" /\ text[4] = "}"
                THEN SubSeq(text, 2, 3)
                ELSE text
        ids == IF Len(body) = 2 /\ body[1] = Zeros
               THEN {id \in UUIDs : ToString(id) = body[2]} ELSE {}
    IN  IF ids = {} THEN [err |-> TRUE, id |-> SystemUserUUID]
        ELSE [err |-> FALSE, id |-> CHOOSE id \in ids : TRUE]

Audiences == {"", "aud1", "aud2"}
Instances == {"inst1", "inst2"}
\* the tenant whose rows the users table of the model holds
TableInstance == "inst1"

NilClaims == [nil |-> TRUE, Subject |-> <<>>, Audience |-> ""]
NilActor == [nil |-> TRUE]

\* models.NewSystemUser
NewSystemUser(instanceID, aud) ==
    [nil |-> FALSE, InstanceID |-> instanceID, ID |-> SystemUserUUID, Aud |-> aud,
     Role |-> "", IsSuperAdmin |-> TRUE]

\* models.FindUserByInstanceIDAndID on the table db; with ~up the query fails
FindUserByInstanceIDAndID(db, up, instanceID, userID) ==
    IF ~up THEN [user |-> NilActor, err |-> "error finding user", lookups |-> 1]
    ELSE IF instanceID = TableInstance /\ userID \in UserIds /\ db[userID].exists
    THEN [user |-> [nil |-> FALSE, InstanceID |-> instanceID, ID |-> userID,
                    Aud |-> db[userID].aud, Role |-> db[userID].role,
                    IsSuperAdmin |-> FALSE],
          err |-> "", lookups |-> 1]
    ELSE [user |-> NilActor, err |-> "User not found", lookups |-> 1]

\* errors.New: the function ends without a storage lookup
ErrorsNew(msg) == [user |-> NilActor, err |-> msg, lookups |-> 0]

\* getUserFromClaims; claims and instanceID are what getClaims and
\* getInstanceID read from the context
getUserFromClaims(claims, instanceID, db, up) ==
    IF claims.nil THEN ErrorsNew("Invalid token")
    ELSE IF claims.Subject = <<>> THEN ErrorsNew("Invalid claim: id")
    ELSE IF claims.Subject = UUIDString(SystemUserUUID)
            \/ claims.Subject = SystemUserID
    THEN [user |-> NewSystemUser(instanceID, claims.Audience), err |-> "",
          lookups |-> 0]
    ELSE IF FromString(claims.Subject).err THEN ErrorsNew("Invalid user ID")
    ELSE FindUserByInstanceIDAndID(db, up, instanceID,
                                   FromString(claims.Subject).id)

\* models.User.HasRole
HasRole(u, roleName) == u.Role = roleName

\* isAdmin that does not look at the audience
isAdminAnyAudience(config, u, aud) ==
    u.IsSuperAdmin \/ HasRole(u, config.AdminGroupName)

\* API.isAdmin; config is what a.getConfig reads from the context
isAdmin(config, u, aud) ==
    LET a == IF aud = "" THEN config.Aud ELSE aud
    IN  u.IsSuperAdmin \/ (a = u.Aud /\ HasRole(u, config.AdminGroupName))

\* http.Header.Get on the values of one header
Get(values) == IF values = <<>> THEN "" ELSE values[1]

\* requestAud that asks the token before the header
requestAudClaimsFirst(config, header, claims) ==
    IF ~claims.nil /\ claims.Audience # "" THEN claims.Audience
    ELSE IF Get(header) # "" THEN Get(header)
    ELSE config.Aud

\* API.requestAud; header holds the values of the audience header
requestAud(config, header, claims) ==
    IF Get(header) # "" THEN Get(header)
    ELSE IF ~claims.nil /\ claims.Audience # "" THEN claims.Audience
    ELSE config.Aud

(***************************************************************************)
(* The resolver as a state machine: one call on the configuration of the   *)
(* run.                                                                    *)
(***************************************************************************)
\* config.JWT of the tenants
JWTConfigs ==
    {[Aud |-> a, AdminGroupName |-> g] :
        a \in {"", "aud1", "aud2"}, g \in {"admin", "supabase_admin"}}

Subjects ==
    {<<>>, SystemUserID, <<"not-a-uuid">>, <<Zeros>>, <<"{", Zeros, "1">>}
    \cup UNION {{UUIDString(id), <<"urn:uuid:">> \o UUIDString(id),
                 <<"{">> \o UUIDString(id) \o <<"}">>} : id \in UUIDs}

ClaimsValues ==
    {NilClaims} \cup {[nil |-> FALSE, Subject |-> s, Audience |-> a] :
                         s \in Subjects, a \in Audiences}

\* the users isAdmin is asked about
Actors ==
    {[nil |-> FALSE, InstanceID |-> TableInstance, ID |-> 1, Aud |-> a, Role |-> r,
      IsSuperAdmin |-> sa] :
        a \in Audiences \ {""}, r \in {"", "admin", "authenticated"},
        sa \in BOOLEAN}

\* the values of the audience header of a request
AudHeaders == {<<>>, <<"">>, <<"aud1">>, <<"aud2", "aud1">>, <<"", "aud2">>}

authFrame == <<users, auditLog, clock, committed, last, budget, creates,
               redirectVars, egressVars>>

GetUserFromClaims ==
    /\ auth.fn = "config"
    /\ \E claims \in ClaimsValues, instanceID \in Instances, up \in BOOLEAN :
          auth' = [fn |-> "getUserFromClaims", config |-> auth.config,
                   claims |-> claims, instanceID |-> instanceID, up |-> up,
                   out |-> getUserFromClaims(claims, instanceID, users, up)]
    /\ UNCHANGED authFrame

IsAdmin ==
    /\ auth.fn = "config"
    /\ \E u \in Actors, aud \in Audiences :
          auth' = [fn |-> "isAdmin", config |-> auth.config, u |-> u, aud |-> aud,
                   out |-> isAdmin(auth.config, u, aud)]
    /\ UNCHANGED authFrame

RequestAudCall ==
    /\ auth.fn = "config"
    /\ \E header \in AudHeaders, claims \in ClaimsValues :
          /\ claims.Subject \in {<<>>, SystemUserID}
          /\ auth' = [fn |-> "requestAud", config |-> auth.config,
                      header |-> header, claims |-> claims,
                      out |-> requestAud(auth.config, header, claims)]
    /\ UNCHANGED authFrame

AuthInit ==
    /\ \E config \in JWTConfigs : auth = [fn |-> "config", config |-> config]
    /\ users = InitialUsers
    /\ auditLog = <<>>
    /\ clock = 0
    /\ committed = <<>>
    /\ last = NoCall
    /\ budget = [calls |-> 0, full |-> FALSE]
    /\ creates = NoCreates
    /\ RedirectIdle
    /\ EgressIdle

AuthNext == GetUserFromClaims \/ IsAdmin \/ RequestAudCall

\* one call of the claim and authorization resolver
SpecAuth == AuthInit /\ [][AuthNext]_vars

(***************************************************************************)
(* Claims on the claim and authorization resolver.                         *)
(***************************************************************************)
\* the audience isAdmin compares: the given one, or the tenant's default
EffectiveAud == IF auth.aud = "" THEN auth.config.Aud ELSE auth.aud

\* C13: isAdmin(user, aud) is true exactly when the user is a super admin, or
\* aud (the tenant's default audience when aud is empty) equals the user's
\* audience and the user's role is the configured admin role; so a super admin
\* is admin for every audience and the admin role with another audience is not.
C13_IsAdminIffSuperOrRoleInAudience ==
    auth.fn = "isAdmin" =>
       /\ auth.out <=> \/ auth.u.IsSuperAdmin
                       \/ /\ EffectiveAud = auth.u.Aud
                          /\ auth.u.Role = auth.config.AdminGroupName
       /\ auth.u.IsSuperAdmin => auth.out
       /\ (~auth.u.IsSuperAdmin /\ EffectiveAud # auth.u.Aud) => ~auth.out

\* the admin role in an audience that is not the user's: no admin
C13_Witness ==
    /\ auth.fn = "isAdmin"
    /\ ~auth.u.IsSuperAdmin
    /\ auth.u.Role = auth.config.AdminGroupName
    /\ auth.aud = "" /\ auth.config.Aud = "aud2" /\ auth.u.Aud = "aud1"
    /\ ~auth.out

AuthErrors == {"Invalid token", "Invalid claim: id", "Invalid user ID"}

\* the subject is the text of a user identifier
WellFormed(subject) ==
    \E id \in UUIDs : subject \in {UUIDString(id), <<"urn:uuid:">> \o UUIDString(id),
                                  <<"{">> \o UUIDString(id) \o <<"}">>}

\* the identifier a well-formed subject names
Named(subject) ==
    CHOOSE id \in UUIDs : subject \in {UUIDString(id), <<"urn:uuid:">> \o UUIDString(id),
                                       <<"{">> \o UUIDString(id) \o <<"}">>}

\* C14: getUserFromClaims fails with an auth error when the claims are absent
\* or the subject is empty; for the system-user sentinel it returns a synthetic
\* system user of the current tenant and the claim audience without a storage
\* lookup; otherwise it fails with an auth error, again without a lookup, when
\* the subject is no well-formed identifier; otherwise it looks the user up by
\* tenant and identifier and fails with not-found when there is no such user.
C14_ActorResolutionOrder ==
    auth.fn = "getUserFromClaims" =>
       LET claims == auth.claims
           out == auth.out
       IN  IF claims.nil \/ claims.Subject = <<>>
           THEN out.err \in AuthErrors /\ out.user.nil /\ out.lookups = 0
           ELSE IF claims.Subject \in {UUIDString(SystemUserUUID), SystemUserID}
           THEN /\ out.err = "" /\ out.lookups = 0
                /\ out.user = NewSystemUser(auth.instanceID, claims.Audience)
           ELSE IF ~WellFormed(claims.Subject)
           THEN out.err \in AuthErrors /\ out.user.nil /\ out.lookups = 0
           ELSE /\ out.lookups = 1
                /\ auth.up =>
                      IF /\ auth.instanceID = TableInstance
                         /\ Named(claims.Subject) \in UserIds
                         /\ users[Named(claims.Subject)].exists
                      THEN /\ out.err = ""
                           /\ out.user.ID = Named(claims.Subject)
                           /\ out.user.InstanceID = auth.instanceID
                      ELSE out.err = "User not found" /\ out.user.nil

\* a well-formed subject that names no user of the tenant: one lookup, not found
C14_Witness ==
    /\ auth.fn = "getUserFromClaims"
    /\ auth.claims.Subject = <<"urn:uuid:">> \o UUIDString(MaxUsers)
    /\ auth.up
    /\ auth.out.lookups = 1
    /\ auth.out.err = "User not found"

\* C15: requestAud returns the first non-empty value of the audience header,
\* the audience of the token claims (when there are claims) and the tenant's
\* default audience, in this order; it returns no error, and a non-empty header
\* overrides the claim audience.
C15_RequestAudPrecedence ==
    auth.fn = "requestAud" =>
       LET header == IF auth.header = <<>> THEN "" ELSE auth.header[1]
           claim == IF auth.claims.nil THEN "" ELSE auth.claims.Audience
       IN  /\ auth.out \in Audiences
           /\ auth.out = IF header # "" THEN header
                         ELSE IF claim # "" THEN claim
                         ELSE auth.config.Aud

\* a header that overrides the audience of the claims
C15_Witness ==
    /\ auth.fn = "requestAud"
    /\ auth.header = <<"aud2", "aud1">>
    /\ ~auth.claims.nil /\ auth.claims.Audience = "aud1"
    /\ auth.out = "aud2"

(***************************************************************************)
(* The redirect resolver.  A string is the sequence of its tokens:         *)
(*   scheme ":" "//" host [port] { "/" | segment } [query]                 *)
(* "%zz" is a segment that is no valid URL escape; "*" and "**" are the    *)
(* wildcards of an allow-list pattern.                                     *)
(***************************************************************************)
Schemes == {"http", "https", "httpx", "myapp"}
Hosts == {"site.example", "a.example", "callback"}
Ports == {":8080"}
Segments == {"cb", "%zz"}
Queries == {"?q=1"}

\* the tokens that hold none of the separators '.' and '/' of the glob matcher
SepFree == Schemes \cup Ports \cup Segments \cup Queries \cup {":", "callback"}

\* the first index of s whose token is in set T, else Len(s) + 1
IndexIn(s, T) ==
    LET I == {i \in 1..Len(s) : s[i] \in T}
    IN  IF I = {} THEN Len(s) + 1 ELSE CHOOSE i \in I : \A j \in I : i <= j

NilURL ==
    [err |-> TRUE, Scheme |-> "", Opaque |-> <<>>, Host |-> <<>>, Path |-> <<>>,
     RawQuery |-> <<>>]

\* url.Parse, of a string given as a value
parse(u) ==
    LET q == IndexIn(u, Queries)
        body == SubSeq(u, 1, q - 1)
        query == SubSeq(u, q, Len(u))
        hasScheme == Len(body) >= 2 /\ body[1] \in Schemes /\ body[2] = ":"
        rest == IF hasScheme THEN SubSeq(body, 3, Len(body)) ELSE body
        hasAuthority == rest # <<>> /\ rest[1] = "//"
        afterSlashes == IF hasAuthority THEN Tail(rest) ELSE rest
        slash == IndexIn(afterSlashes, {"/"})
    IN  IF "%zz" \in Range(body) THEN NilURL          \* invalid URL escape
        ELSE IF ~hasScheme /\ ":" \in Range(SubSeq(rest, 1, IndexIn(rest, {"/"}) - 1))
        THEN NilURL                                   \* first path segment cannot contain colon
        ELSE IF hasScheme /\ rest # <<>> /\ rest[1] \notin {"/", "//"}
        THEN [err |-> FALSE, Scheme |-> body[1], Opaque |-> rest, Host |-> <<>>,
              Path |-> <<>>, RawQuery |-> query]
        ELSE [err |-> FALSE, Scheme |-> IF hasScheme THEN body[1] ELSE "",
              Opaque |-> <<>>,
              Host |-> IF hasAuthority THEN SubSeq(afterSlashes, 1, slash - 1)
                       ELSE <<>>,
              Path |-> IF hasAuthority
                       THEN SubSeq(afterSlashes, slash, Len(afterSlashes))
                       ELSE rest,
              RawQuery |-> query]

\* url.Parse
Parse(rawURL) == CHOOSE url \in {parse(u) : u \in {rawURL}} : TRUE

\* (*url.URL).String
String(url) ==
    LET scheme == IF url.Scheme # "" THEN <<url.Scheme, ":">> ELSE <<>>
        authority ==
            IF url.Scheme # "" \/ url.Host # <<>>
            THEN (IF url.Host # <<>> \/ url.Path # <<>> THEN <<"//">> ELSE <<>>)
                 \o url.Host
            ELSE <<>>
        slash == IF url.Path # <<>> /\ url.Path[1] # "/" /\ url.Host # <<>>
                 THEN <<"/">> ELSE <<>>
    IN  IF url.Opaque # <<>> THEN scheme \o url.Opaque \o url.RawQuery
        ELSE scheme \o authority \o slash \o url.Path \o url.RawQuery

\* (*url.URL).Hostname: the host without its port
Hostname(url) == SelectSeq(url.Host, LAMBDA t : t \notin Ports)

\* no trailing '/' is stripped
TrimSuffixNothing(path) == path

\* strings.TrimSuffix(path, "/")
TrimSuffix(path) ==
    IF path # <<>> /\ path[Len(path)] = "/" THEN SubSeq(path, 1, Len(path) - 1)
    ELSE path

parseURL(u) ==
    LET parsed == Parse(u)
    IN  IF parsed.err THEN NilURL
        ELSE IF parsed.Scheme = "https" \/ parsed.Scheme = "http"
        THEN [parsed EXCEPT !.Path = TrimSuffix(@)]
        ELSE parsed

\* the compiled glob of an allow-list entry, with the separators '.' and '/':
\* "*" matches any run of tokens without a separator, "**" any run of tokens
\* M[i, j]: the pattern from its i-th token on matches t from its j-th token on
Match(g, t) ==
    LET M[i \in 1..Len(g) + 1, j \in 1..Len(t) + 1] ==
            IF i > Len(g) THEN j > Len(t)
            ELSE IF g[i] = "**"
            THEN \E k \in j..Len(t) + 1 : M[i + 1, k]
            ELSE IF g[i] = "*"
            THEN \E k \in j..Len(t) + 1 :
                    /\ \A n \in j..k - 1 : t[n] \in SepFree
                    /\ M[i + 1, k]
            ELSE j <= Len(t) /\ t[j] = g[i] /\ M[i + 1, j + 1]
    IN  M[1, 1]

\* strings.HasPrefix(uri, "http") || strings.HasPrefix(uri, "https")
HasPrefixHttp(uri) == uri # <<>> /\ uri[1] \in {"http", "https", "httpx"}

\* the decision of isRedirectURLValid on the two parsed URLs: "true", "false",
\* or "panic" for refurl.String() on the nil URL of a failed parse
redirectURLValid(config, redirectURL, base, refurl) ==
    IF redirectURL = <<>> THEN "false"
    ELSE IF refurl.err THEN "panic"
    ELSE IF ~base.err /\ Hostname(base) = Hostname(refurl) THEN "true"
    ELSE IF \E matchURL \in {String(refurl)}, uri \in config.URIAllowList :
               IF HasPrefixHttp(uri) THEN Match(uri, matchURL)
               ELSE redirectURL = uri
    THEN "true"
    ELSE "false"

isRedirectURLValid(config, redirectURL) ==
    CHOOSE valid \in {redirectURLValid(config, redirectURL, base, refurl) :
                        base \in {parseURL(config.SiteURL)},
                        refurl \in {parseURL(redirectURL)}} : TRUE

\* a request: the redirect_to header, the form (its parse may fail) and the Referer
getRedirectTo(r) ==
    IF r.header # <<>> THEN r.header
    ELSE IF ~r.formErr THEN r.form
    ELSE <<>>

Panic == [panic |-> TRUE, value |-> <<>>]
Return(v) == [panic |-> FALSE, value |-> v]

\* the choice of getReferrer; `second`, the validity of the Referer, is asked
\* for only when the redirect field is not valid
referrer(config, r, reqref, first, second) ==
    IF first = "panic" THEN Panic
    ELSE IF first = "true" THEN Return(reqref)
    ELSE IF second = "panic" THEN Panic
    ELSE IF second = "true" THEN Return(r.referer)
    ELSE Return(config.SiteURL)

getReferrer(config, r) ==
    CHOOSE result \in
        UNION {{referrer(config, r, reqref, first, second) :
                    first \in {isRedirectURLValid(config, reqref)},
                    second \in {isRedirectURLValid(config, r.referer)}} :
               reqref \in {getRedirectTo(r)}} : TRUE

getRedirectURLOrReferrer(config, r, reqref) ==
    CHOOSE result \in
        {IF first = "panic" THEN Panic
         ELSE IF first = "true" THEN Return(reqref)
         ELSE rest :
            first \in {isRedirectURLValid(config, reqref)},
            rest \in {getReferrer(config, r)}} : TRUE

(***************************************************************************)
(* The redirect resolver as a state machine: a configuration, and calls    *)
(* of the resolver's functions on candidate strings and requests.  A run   *)
(* is one call.                                                            *)
(***************************************************************************)
\* candidate paths end in up to MaxTrailing '/'
MaxTrailing == 2

Slashes(n) == [i \in 1..n |-> "/"]
Paths == {<<"/", "%zz">>}
            \cup {Slashes(n) : n \in 0..MaxTrailing}
            \cup {<<"/", "cb">> \o Slashes(n) : n \in 0..MaxTrailing}

Candidates ==
    {<<s, ":", "//", h>> \o port \o path \o q :
        s \in Schemes, h \in Hosts, port \in {<<>>, <<":8080">>},
        path \in Paths, q \in {<<>>, <<"?q=1">>}}
    \cup {<<>>, <<"/", "cb">>, <<"myapp", ":", "cb">>, <<"cb", ":", "cb">>}

SiteURLs == {<<"https", ":", "//", "site.example">>,
             <<"https", ":", "//", "site.example", "/", "%zz">>}

AllowLists ==
    {{},
     {<<"https", ":", "//", "a.example", "/", "cb">>},
     {<<"https", ":", "//", "a.example", "/", "*">>},
     {<<"https", ":", "//", "a.example", "/", "**">>},
     {<<"httpx", ":", "//", "callback">>},
     {<<"httpx", ":", "//", "callback", "/", "*">>},
     {<<"myapp", ":", "//", "callback">>},
     {<<"myapp", ":", "//", "callback", "/", "%zz">>},
     {<<"https", ":", "//", "a.example", "/", "cb">>, <<"myapp", ":", "//", "callback", "/">>}}

Configs == [SiteURL : SiteURLs, URIAllowList : AllowLists]

\* the values a request carries in its redirect_to header, form field and Referer
RequestValues ==
    {<<>>,
     <<"https", ":", "//", "site.example", "/", "cb">>,
     <<"https", ":", "//", "a.example", "/", "cb">>,
     <<"http", ":", "//", "callback", "/", "cb">>,
     <<"myapp", ":", "//", "callback">>,
     <<"https", ":", "//", "a.example", "/", "%zz">>}

HTTPRequests ==
    [header : RequestValues, form : RequestValues, formErr : BOOLEAN,
     referer : RequestValues]

IsRedirectURLValid ==
    \E c \in Candidates :
        /\ conf # NoConfig /\ resolved = NoResolution
        /\ resolved' = [fn |-> "isRedirectURLValid", redirectURL |-> c,
                        valid |-> isRedirectURLValid(conf, c)]
        /\ UNCHANGED <<conf, adminVars, egressVars>>

\* a caller normalizes a URL, and normalizes the normalized URL again
ParseURL ==
    \E u \in Candidates :
        /\ conf # NoConfig /\ resolved = NoResolution
        /\ \E url \in {parseURL(u)} :
              \E normalized \in {String(url)} :
                 resolved' = [fn |-> "parseURL", u |-> u, url |-> url,
                              again |-> IF url.err THEN NilURL
                                        ELSE parseURL(normalized)]
        /\ UNCHANGED <<conf, adminVars, egressVars>>

GetReferrer ==
    \E r \in HTTPRequests :
        /\ conf # NoConfig /\ resolved = NoResolution
        /\ resolved' = [fn |-> "getReferrer", r |-> r,
                        result |-> getReferrer(conf, r)]
        /\ UNCHANGED <<conf, adminVars, egressVars>>

GetRedirectURLOrReferrer ==
    \E r \in HTTPRequests, reqref \in RequestValues :
        /\ conf # NoConfig /\ resolved = NoResolution
        /\ ~r.formErr /\ r.header = <<>>
        /\ resolved' = [fn |-> "getRedirectURLOrReferrer", r |-> r, reqref |-> reqref,
                        result |-> getRedirectURLOrReferrer(conf, r, reqref)]
        /\ UNCHANGED <<conf, adminVars, egressVars>>

RedirectInit ==
    /\ conf \in Configs
    /\ resolved = NoResolution
    /\ AdminIdle
    /\ EgressIdle

RedirectNext ==
    IsRedirectURLValid \/ ParseURL \/ GetReferrer \/ GetRedirectURLOrReferrer

SpecRedirect == RedirectInit /\ [][RedirectNext]_vars

(***************************************************************************)
(* Claims about the redirect resolver.                                     *)
(***************************************************************************)
\* the candidate after normalization, as the string matched against a pattern
Normalized(c) == String(parseURL(c))

\* the candidate's hostname equals the hostname of the configured site URL
SameHostname(config, c) ==
    /\ ~Parse(config.SiteURL).err
    /\ ~Parse(c).err
    /\ Hostname(Parse(c)) = Hostname(Parse(config.SiteURL))

\* the candidate matches the allow-list entry under the entry's matching rule:
\* the glob of an http/https entry against the normalized candidate, byte-exact
\* equality of the raw candidate with a custom-scheme entry
MatchesEntry(entry, c) ==
    IF HasPrefixHttp(entry) THEN ~Parse(c).err /\ Match(entry, Normalized(c))
    ELSE c = entry

ContractValid(config, c) ==
    /\ c # <<>>
    /\ \/ SameHostname(config, c)
       \/ \E entry \in config.URIAllowList : MatchesEntry(entry, c)

\* C5: isRedirectURLValid returns true if and only if the candidate is non-empty
\* and either its hostname equals the site URL's hostname or it matches at least
\* one allow-list entry under that entry's matching rule.
C5_ValidIffContract ==
    resolved.fn = "isRedirectURLValid" =>
        (resolved.valid = "true" <=> ContractValid(conf, resolved.redirectURL))

\* the scheme of an allow-list entry is http or https
IsHTTPEntry(entry) == Len(entry) >= 2 /\ entry[1] \in {"http", "https"} /\ entry[2] = ":"

\* an http/https entry without wildcards, and its URL with one trailing '/'
PlainEntry == <<"https", ":", "//", "a.example", "/", "cb">>
PlainEntrySlash == PlainEntry \o <<"/">>

\* C17: an allow-list entry whose scheme is not http or https is matched only
\* by byte-exact equality of the raw candidate with the entry: with only such
\* entries on the list, a candidate that is none of them and does not have the
\* site's hostname is not valid; for the http/https entry https://a.example/cb
\* both that URL and that URL with one trailing '/' are valid.
C17_CustomSchemeEntriesMatchExactly ==
    resolved.fn = "isRedirectURLValid" =>
       /\ ( /\ \A entry \in conf.URIAllowList : ~IsHTTPEntry(entry)
            /\ resolved.redirectURL \notin conf.URIAllowList
            /\ ~SameHostname(conf, resolved.redirectURL) )
          => resolved.valid # "true"
       /\ ( /\ PlainEntry \in conf.URIAllowList
            /\ resolved.redirectURL \in {PlainEntry, PlainEntrySlash} )
          => resolved.valid = "true"

\* C6: effective-redirect resolution never fails: getReferrer and
\* getRedirectURLOrReferrer return a value without faulting for every request.
C6_ResolutionNeverFails ==
    resolved.fn \in {"getReferrer", "getRedirectURLOrReferrer"} =>
        ~resolved.result.panic

IsValid(c) == isRedirectURLValid(conf, c) = "true"

\* C7: getReferrer returns the request redirect field if that value is valid,
\* otherwise the Referer header if it is valid, otherwise the site URL; so its
\* result is the site URL or a valid string, and a valid redirect field wins.
C7_ReferrerOrder ==
    resolved.fn = "getReferrer" =>
        LET field == IF resolved.r.header # <<>> THEN resolved.r.header
                     ELSE IF resolved.r.formErr THEN <<>> ELSE resolved.r.form
        IN  /\ ~resolved.result.panic
            /\ resolved.result.value =
                  IF IsValid(field) THEN field
                  ELSE IF IsValid(resolved.r.referer) THEN resolved.r.referer
                  ELSE conf.SiteURL
            /\ \/ resolved.result.value = conf.SiteURL
               \/ IsValid(resolved.result.value)

\* the number of '/' that end the path
RECURSIVE Trailing(_)
Trailing(path) ==
    IF path = <<>> \/ path[Len(path)] # "/" THEN 0
    ELSE 1 + Trailing(SubSeq(path, 1, Len(path) - 1))

IsHTTP(url) == url.Scheme \in {"http", "https"}

\* C8 as stated: normalizing the normalized URL again yields the same URL as
\* normalizing once, for every http/https URL (also with a path ending in more
\* than one '/'); the path of a URL of another scheme is left unchanged.
C8_NormalizeIdempotent ==
    (resolved.fn = "parseURL" /\ ~resolved.url.err) =>
        /\ IsHTTP(resolved.url) => resolved.again = resolved.url
        /\ ~IsHTTP(resolved.url) => resolved.url.Path = Parse(resolved.u).Path

\* C8 amended: parseURL strips exactly one trailing '/' from the path of an
\* http/https URL and leaves the path of any other URL unchanged; normalizing
\* again yields the same URL unless the path of the http/https URL ended in more
\* than one '/', and then normalizing again strips one more '/'.
C8_NormalizeStripsOneSlash ==
    (resolved.fn = "parseURL" /\ ~resolved.url.err) =>
        LET path == Parse(resolved.u).Path
            n == Trailing(path)
        IN  /\ resolved.url.Path =
                  IF IsHTTP(resolved.url) /\ n >= 1
                  THEN SubSeq(path, 1, Len(path) - 1) ELSE path
            /\ (~IsHTTP(resolved.url) \/ n <= 1) => resolved.again = resolved.url
            /\ (IsHTTP(resolved.url) /\ n >= 2) =>
                  /\ ~resolved.again.err
                  /\ resolved.again.Path = SubSeq(path, 1, Len(path) - 2)
                  /\ resolved.again = [resolved.url EXCEPT !.Path = resolved.again.Path]

\* an https URL whose path ends in one '/' has been normalized twice
C8_Witness ==
    /\ resolved.fn = "parseURL"
    /\ ~resolved.url.err
    /\ resolved.url.Scheme = "https"
    /\ Parse(resolved.u).Path = <<"/", "cb", "/">>
    /\ resolved.url.Path = <<"/", "cb">>
    /\ resolved.again = resolved.url

(***************************************************************************)
(* The egress guard: addresses.  A dial address, a host and a CIDR are the *)
(* sequences of their tokens (numbers, ".", ":", "::", "[", "]", "/", and  *)
(* a host name); an IP is the sequence of its 4 or 16 bytes, nil is <<>>.  *)
(***************************************************************************)
Decimal ==
    ("0" :> 0) @@ ("1" :> 1) @@ ("2" :> 2) @@ ("3" :> 3) @@ ("5" :> 5) @@ ("7" :> 7)
    @@ ("8" :> 8) @@ ("10" :> 10) @@ ("12" :> 12) @@ ("16" :> 16) @@ ("24" :> 24)
    @@ ("64" :> 64) @@ ("80" :> 80) @@ ("100" :> 100) @@ ("113" :> 113)
    @@ ("127" :> 127) @@ ("128" :> 128) @@ ("168" :> 168) @@ ("169" :> 169)
    @@ ("172" :> 172) @@ ("192" :> 192) @@ ("203" :> 203) @@ ("254" :> 254)
    @@ ("255" :> 255) @@ ("256" :> 256) @@ ("443" :> 443) @@ ("15" :> 15)
    @@ ("18" :> 18) @@ ("19" :> 19) @@ ("31" :> 31) @@ ("32" :> 32) @@ ("51" :> 51)
    @@ ("63" :> 63) @@ ("198" :> 198)

Hexadecimal ==
    ("0" :> 0) @@ ("1" :> 1) @@ ("db8" :> 3512) @@ ("2001" :> 8193)
    @@ ("fc00" :> 64512) @@ ("fd00" :> 64768) @@ ("fe80" :> 65152)
    @@ ("ffff" :> 65535) @@ ("febf" :> 65215) @@ ("fec0" :> 65216)
    @@ ("2" :> 2)

NilIP == <<>>
Invalid == <<-1>>
v4InV6Prefix == <<0, 0, 0, 0, 0, 0, 0, 0, 0, 0, 255, 255>>

\* the four bytes of a dotted quad, or Invalid
parseIPv4(s) ==
    IF /\ Len(s) = 7
       /\ \A i \in {2, 4, 6} : s[i] = "."
       /\ \A i \in {1, 3, 5, 7} : s[i] \in DOMAIN Decimal /\ Decimal[s[i]] <= 255
    THEN <<Decimal[s[1]], Decimal[s[3]], Decimal[s[5]], Decimal[s[7]]>>
    ELSE Invalid

\* the 16-bit groups of hextets separated by ":", or Invalid
hextets(s) ==
    IF s = <<>> THEN <<>>
    ELSE IF /\ Len(s) % 2 = 1
            /\ \A i \in 1..Len(s) : IF i % 2 = 1 THEN s[i] \in DOMAIN Hexadecimal
                                    ELSE s[i] = ":"
    THEN [i \in 1..(Len(s) + 1) \div 2 |-> Hexadecimal[s[2 * i - 1]]]
    ELSE Invalid

\* the groups of a run of an IPv6 text, which may end in a dotted quad
groups(s) ==
    IF "." \in Range(s)
    THEN LET quad == parseIPv4(SubSeq(s, Len(s) - 6, Len(s)))
             head == IF Len(s) = 7 THEN <<>> ELSE hextets(SubSeq(s, 1, Len(s) - 8))
         IN  IF Len(s) < 7 \/ quad = Invalid \/ head = Invalid THEN Invalid
             ELSE IF Len(s) > 7 /\ s[Len(s) - 7] # ":" THEN Invalid
             ELSE head \o <<quad[1] * 256 + quad[2], quad[3] * 256 + quad[4]>>
    ELSE hextets(s)

parseIPv6(s) ==
    LET z == IndexIn(s, {"::"})
        left == groups(SubSeq(s, 1, z - 1))
        right == groups(SubSeq(s, z + 1, Len(s)))
        all == IF z > Len(s) THEN left
               ELSE left \o [i \in 1..8 - Len(left) - Len(right) |-> 0] \o right
    IN  IF left = Invalid \/ right = Invalid THEN NilIP
        ELSE IF z <= Len(s) /\ Len(left) + Len(right) > 7 THEN NilIP
        ELSE IF Len(all) # 8 THEN NilIP
        ELSE [i \in 1..16 |-> IF i % 2 = 1 THEN all[(i + 1) \div 2] \div 256
                              ELSE all[i \div 2] % 256]

\* net.ParseIP of a host given as a value: 16 bytes, or nil
parseIP(s) ==
    IF \E i \in 1..Len(s) : s[i] \in {":", "::"} THEN parseIPv6(s)
    ELSE IF parseIPv4(s) # Invalid THEN v4InV6Prefix \o parseIPv4(s)
    ELSE NilIP

\* net.ParseIP
ParseIP(host) == CHOOSE ip \in {parseIP(s) : s \in {host}} : TRUE

\* (net.IP).To4
To4(ip) ==
    IF Len(ip) = 4 THEN ip
    ELSE IF Len(ip) = 16 /\ SubSeq(ip, 1, 12) = v4InV6Prefix THEN SubSeq(ip, 13, 16)
    ELSE NilIP

\* net.SplitHostPort of an address given as a value
splitHostPort(addr) ==
    LET I == {i \in 1..Len(addr) : addr[i] = ":"}
        i == IF I = {} THEN 0 ELSE CHOOSE m \in I : \A n \in I : n <= m
        end == IndexIn(addr, {"]"})
        bracketed == addr[1] = "["
        host == IF bracketed THEN SubSeq(addr, 2, end - 1) ELSE SubSeq(addr, 1, i - 1)
        port == SubSeq(addr, i + 1, Len(addr))
        bad == [err |-> TRUE, host |-> <<>>, port |-> <<>>]
    IN  IF i = 0 THEN bad                                      \* missing port
        ELSE IF bracketed /\ end > Len(addr) THEN bad          \* missing ']'
        ELSE IF bracketed /\ end + 1 # i THEN bad              \* missing port, too many colons
        ELSE IF ~bracketed /\ \E n \in 1..Len(host) : host[n] \in {":", "::"}
        THEN bad                                               \* too many colons
        ELSE IF \E t \in Range(host) \cup Range(port) : t \in {"[", "]"} THEN bad
        ELSE [err |-> FALSE, host |-> host, port |-> port]

\* net.SplitHostPort
SplitHostPort(address) == CHOOSE r \in {splitHostPort(addr) : addr \in {address}} : TRUE

\* the first `ones` bits of the byte at position i (from 1) are network bits
Mask(ones, i, b) ==
    LET bits == IF ones >= 8 * i THEN 8
                ELSE IF ones <= 8 * (i - 1) THEN 0
                ELSE ones - 8 * (i - 1)
    IN  (b \div 2 ^ (8 - bits)) * 2 ^ (8 - bits)

\* net.ParseCIDR of a CIDR given as a value, allocated at ptr: the network
\* address of 4 or 16 bytes and the prefix length
parseCIDR(s, ptr) ==
    LET slash == IndexIn(s, {"/"})
        ip == ParseIP(SubSeq(s, 1, slash - 1))
        ones == Decimal[s[slash + 1]]
        short == IF To4(ip) # NilIP THEN To4(ip) ELSE ip
    IN  [ptr |-> ptr, ones |-> ones,
         IP |-> [i \in 1..Len(short) |-> Mask(ones, i, short[i])]]

\* net.ParseCIDR
ParseCIDR(cidr, ptr) == CHOOSE b \in {parseCIDR(s, ptr) : s \in {cidr}} : TRUE

\* (*net.IPNet).Contains
Contains(block, ip) ==
    LET x == IF To4(ip) # NilIP THEN To4(ip) ELSE ip
    IN  /\ Len(x) = Len(block.IP)
        /\ \A i \in 1..Len(x) : Mask(block.ones, i, x[i]) = block.IP[i]

(***************************************************************************)
(* The egress guard: the block list.  privateIPBlocks is a slice: a header *)
(* (array, len) over a backing array in `heap`.  An entry is the           *)
(* *net.IPNet of net.ParseCIDR: its address `ptr` and the network it       *)
(* points to.                                                              *)
(***************************************************************************)
\* amendments of the block list in one run
MaxAmend == 2

DefaultCIDRs ==
    << <<"127", ".", "0", ".", "0", ".", "0", "/", "8">>,
       <<"10", ".", "0", ".", "0", ".", "0", "/", "8">>,
       <<"100", ".", "64", ".", "0", ".", "0", "/", "10">>,
       <<"172", ".", "16", ".", "0", ".", "0", "/", "12">>,
       <<"192", ".", "0", ".", "0", ".", "0", "/", "24">>,
       <<"192", ".", "168", ".", "0", ".", "0", "/", "16">>,
       <<"169", ".", "254", ".", "0", ".", "0", "/", "16">>,
       <<"::", "1", "/", "128">>,
       <<"fe80", "::", "/", "10">>,
       <<"fc00", "::", "/", "7">> >>

LocalhostCIDR == <<"127", ".", "0", ".", "0", ".", "0", "/", "8">>
\* a range that a deployment prepends
CustomCIDR == <<"203", ".", "0", ".", "113", ".", "0", "/", "24">>

\* init(): the array that ten appends leave, its entries allocated in order
InitBlocks == [i \in 1..Len(DefaultCIDRs) |-> ParseCIDR(DefaultCIDRs[i], i)]

\* the elements of a slice
Slice(h, header) == SubSeq(h[header.array], 1, header.len)
List == Slice(heap, privateIPBlocks)

isPrivateIP(list, ip) == \E i \in 1..Len(list) : Contains(list[i], ip)

\* the index (from 1) that the loop of removeLocalhostFromPrivateIPBlock leaves
\* in localhostIndex: the last entry equal to the pointer `localhost`, else the
\* first entry
localhostIndex(list, localhost) ==
    LET I == {i \in 1..Len(list) : list[i].ptr = localhost.ptr}
    IN  IF I = {} THEN 1 ELSE CHOOSE i \in I : \A j \in I : j <= i

\* append(list[:i], list[i+1:]...) as a list
removeAt(list, i) == SubSeq(list, 1, i - 1) \o SubSeq(list, i + 1, Len(list))

\* append([]*net.IPNet{address}, list...)
unshift(list, address) == <<address>> \o list

\* the pointers of the entries of list that contain ip
Covering(list, ip) == {list[i].ptr : i \in {j \in 1..Len(list) : Contains(list[j], ip)}}

\* history: the ranges that held ip before the amendment and hold it after
StillCovering(after) ==
    IF reader.pc = "loop"
    THEN [reader EXCEPT !.covering = @ \cap Covering(after, reader.ip)]
    ELSE reader

servingVars == <<phase, request, racers>>

\* the callers of the amendments: startup code, before requests are served
\* ("startup"); or callers that nothing holds to that ("unguarded")
CallerAmends == phase \in {"startup", "unguarded"}

\* removeLocalhostFromPrivateIPBlock, up to the append: ParseCIDR and the loop
RemoveLocalhostBegin ==
    /\ CallerAmends
    /\ writer.pc = "idle" /\ amended.count < MaxAmend
    /\ privateIPBlocks.len >= 1
    /\ \E localhost \in {ParseCIDR(LocalhostCIDR, nextPtr)}, list \in {List} :
          \E i \in {localhostIndex(list, localhost)} :
             /\ writer' = [pc |-> "shift", k |-> i]
             /\ amended' = [count |-> amended.count + 1, op |-> "remove",
                            arg |-> localhost, before |-> list,
                            after |-> removeAt(list, i)]
             /\ reader' = StillCovering(removeAt(list, i))
    /\ nextPtr' = nextPtr + 1
    /\ UNCHANGED <<heap, privateIPBlocks, servingVars, adminVars, redirectVars, roundTrips>>

\* the append moves the entries after localhostIndex down, one at a time
RemoveLocalhostShift ==
    /\ writer.pc = "shift" /\ writer.k < privateIPBlocks.len
    /\ heap' = [heap EXCEPT ![privateIPBlocks.array][writer.k] =
                               heap[privateIPBlocks.array][writer.k + 1]]
    /\ writer' = [writer EXCEPT !.k = @ + 1]
    /\ UNCHANGED <<privateIPBlocks, nextPtr, amended, reader>>
    /\ UNCHANGED <<servingVars, adminVars, redirectVars, roundTrips>>

\* the assignment of the shortened slice to privateIPBlocks
RemoveLocalhostStore ==
    /\ writer.pc = "shift" /\ writer.k >= privateIPBlocks.len
    /\ privateIPBlocks' = [privateIPBlocks EXCEPT !.len = @ - 1]
    /\ writer' = [pc |-> "idle"]
    /\ UNCHANGED <<heap, nextPtr, amended, reader>>
    /\ UNCHANGED <<servingVars, adminVars, redirectVars, roundTrips>>

\* unshiftPrivateIPBlock(address), up to the assignment: the append builds a
\* new array; the caller has parsed the range
UnshiftBegin ==
    /\ CallerAmends
    /\ writer.pc = "idle" /\ amended.count < MaxAmend
    /\ \E address \in {ParseCIDR(CustomCIDR, nextPtr)}, list \in {List} :
          /\ heap' = Append(heap, unshift(list, address))
          /\ writer' = [pc |-> "store", array |-> Len(heap) + 1,
                        len |-> Len(list) + 1, words |-> {"array", "len"}]
          /\ amended' = [count |-> amended.count + 1, op |-> "unshift",
                         arg |-> address, before |-> list,
                         after |-> unshift(list, address)]
          /\ reader' = StillCovering(unshift(list, address))
    /\ nextPtr' = nextPtr + 1
    /\ UNCHANGED <<privateIPBlocks, servingVars, adminVars, redirectVars, roundTrips>>

\* the assignment of the new slice to privateIPBlocks, a word at a time
UnshiftStore ==
    /\ writer.pc = "store"
    /\ \E word \in writer.words :
          /\ privateIPBlocks' = [privateIPBlocks EXCEPT ![word] = writer[word]]
          /\ writer' = IF writer.words = {word} THEN [pc |-> "idle"]
                       ELSE [writer EXCEPT !.words = @ \ {word}]
    /\ UNCHANGED <<heap, nextPtr, amended, reader>>
    /\ UNCHANGED <<servingVars, adminVars, redirectVars, roundTrips>>

(***************************************************************************)
(* isPrivateIP beside an amendment: the range loop takes the slice header  *)
(* once and then reads the array an entry at a time; nothing orders these  *)
(* reads with the writes of an amendment.                                  *)
(***************************************************************************)
CheckedIPs ==
    {ParseIP(<<"10", ".", "1", ".", "2", ".", "3">>),
     ParseIP(<<"127", ".", "0", ".", "0", ".", "1">>),
     ParseIP(<<"fd00", "::", "1">>),
     ParseIP(<<"8", ".", "8", ".", "8", ".", "8">>)}

\* the ranges that hold ip whatever becomes of the amendment in progress
Stable(ip) ==
    IF writer.pc = "idle" THEN Covering(List, ip)
    ELSE Covering(amended.before, ip) \cap Covering(amended.after, ip)

\* for _, block := range privateIPBlocks
IsPrivateIPBegin ==
    /\ phase = "unguarded"
    /\ reader.pc = "idle"
    /\ \E ip \in CheckedIPs :
          reader' = [pc |-> "loop", ip |-> ip, array |-> privateIPBlocks.array,
                     len |-> privateIPBlocks.len, i |-> 1, result |-> "none",
                     covering |-> Stable(ip)]
    /\ UNCHANGED <<blockVars, servingVars, adminVars, redirectVars, roundTrips>>

\* one iteration: block.Contains(ip); an entry past the end of the array that
\* the header named is nil, and Contains on it panics
IsPrivateIPStep ==
    /\ reader.pc = "loop"
    /\ reader' =
          IF reader.i > reader.len
          THEN [reader EXCEPT !.pc = "done", !.result = "false"]
          ELSE IF reader.i > Len(heap[reader.array])
          THEN [reader EXCEPT !.pc = "done", !.result = "panic"]
          ELSE IF Contains(heap[reader.array][reader.i], reader.ip)
          THEN [reader EXCEPT !.pc = "done", !.result = "true"]
          ELSE [reader EXCEPT !.i = @ + 1]
    /\ UNCHANGED <<blockVars, servingVars, adminVars, redirectVars, roundTrips>>

IsPrivateIPReturn ==
    /\ reader.pc = "done"
    /\ reader' = [pc |-> "idle"]
    /\ UNCHANGED <<blockVars, servingVars, adminVars, redirectVars, roundTrips>>

\* init() has run
BlocksInit ==
    /\ heap = <<InitBlocks>>
    /\ privateIPBlocks = [array |-> 1, len |-> Len(InitBlocks)]
    /\ nextPtr = Len(InitBlocks) + 1
    /\ writer = [pc |-> "idle"]
    /\ amended = [count |-> 0, op |-> "none"]
    /\ reader = [pc |-> "idle"]

RaceInit ==
    /\ BlocksInit
    /\ phase = "unguarded"
    /\ request = [st |-> "idle"]
    /\ racers = <<>>
    /\ roundTrips = NoRoundTrips
    /\ AdminIdle
    /\ RedirectIdle

\* amendments while requests are served: the code has nothing that keeps them apart
RaceNext ==
    \/ RemoveLocalhostBegin
    \/ RemoveLocalhostShift
    \/ RemoveLocalhostStore
    \/ UnshiftBegin
    \/ UnshiftStore
    \/ IsPrivateIPBegin
    \/ IsPrivateIPStep
    \/ IsPrivateIPReturn

SpecRace == RaceInit /\ [][RaceNext]_vars

(***************************************************************************)
(* noLocalTransport.RoundTrip.  The wrapped transport is the environment:  *)
(* for a request it runs the dialer's two racers (primary and fallback     *)
(* addresses), a racer makes its connection attempts one after another,    *)
(* every attempt calls ConnectStart before it connects, and dialing,       *)
(* connecting and responding observe the request's context.  An attempt is *)
(* "idle", "resolving" (dialing; ConnectStart is due), "allowed" or        *)
(* "blocked" (ConnectStart has returned), "proceed" (connected),           *)
(* "canceled", or "failed" (no connection, for a reason of the network).   *)
(***************************************************************************)
\* connection attempts for one request
MaxAttempts == 2

Racers == {"primary", "fallback"}

DialAddrs ==
    {<<"127", ".", "0", ".", "0", ".", "1", ":", "80">>,
     <<"8", ".", "8", ".", "8", ".", "8", ":", "443">>,
     <<"203", ".", "0", ".", "113", ".", "5", ":", "80">>,
     <<"[", "::", "1", "]", ":", "80">>,
     <<"localhost", ":", "80">>,
     <<"8", ".", "8", ".", "8", ".", "8">>}

IdleRequest == [st |-> "idle"]
IdleAttempt == [st |-> "idle"]

\* a hook that lets a host through that is no IP
connectStartAnyHost(list, addr) ==
    LET split == SplitHostPort(addr)
    IN  IF split.err THEN "cancel"
        ELSE IF isPrivateIP(list, ParseIP(split.host)) THEN "cancel"
        ELSE "continue"

\* the ConnectStart hook, given the block list: whether it calls cancel()
connectStart(list, addr) ==
    LET split == SplitHostPort(addr)
        ip == ParseIP(split.host)
    IN  IF split.err THEN "cancel"
        ELSE IF ip = NilIP THEN "cancel"
        ELSE IF isPrivateIP(list, ip) THEN "cancel"
        ELSE "continue"

\* the context that the wrapped transport is given: req.WithContext(ctx)
Done(req) == req.cancelled

\* the startup code has amended the block list; requests are served from now on
StartServing ==
    /\ phase = "startup" /\ writer.pc = "idle"
    /\ phase' = "serving"
    /\ UNCHANGED <<blockVars, reader, request, racers, adminVars, redirectVars, roundTrips>>

\* RoundTrip up to the call of the wrapped transport: a fresh cancellable context
RoundTrip ==
    /\ phase = "serving" /\ request.st = "idle"
    /\ request' = [st |-> "pending", cancelled |-> FALSE, cancelledIn |-> "none",
                   outcome |-> "none", dials |-> 0, connected |-> FALSE]
    /\ UNCHANGED <<blockVars, reader, phase, racers, adminVars, redirectVars, roundTrips>>

\* a racer starts a connection attempt, unless the context is done
Dial ==
    \E k \in Racers, addr \in DialAddrs :
        /\ request.st = "pending" /\ ~Done(request)
        /\ request.dials < MaxAttempts
        /\ racers[k].st \in {"idle", "failed"}
        /\ racers' = [racers EXCEPT ![k] = [st |-> "resolving", addr |-> addr,
                                            verdict |-> "none"]]
        /\ request' = [request EXCEPT !.dials = @ + 1]
        /\ UNCHANGED <<blockVars, reader, phase, adminVars, redirectVars, roundTrips>>

\* the hook runs, also when the request has been answered meanwhile
ConnectStart ==
    \E k \in Racers :
        /\ racers[k].st = "resolving"
        /\ \E decision \in {connectStart(List, racers[k].addr)} :
              IF decision = "cancel"
              THEN /\ racers' = [racers EXCEPT ![k].st = "blocked",
                                               ![k].verdict = "blocked"]
                   /\ request' = [request EXCEPT
                                     !.cancelled = TRUE,
                                     !.cancelledIn = IF request.cancelled THEN @
                                                     ELSE request.st]
              ELSE /\ racers' = [racers EXCEPT ![k].st = "allowed",
                                               ![k].verdict = "allowed"]
                   /\ UNCHANGED request
        /\ UNCHANGED <<blockVars, reader, phase, adminVars, redirectVars, roundTrips>>

\* the attempt connects, unless the context is done
Connect ==
    \E k \in Racers :
        /\ racers[k].st = "allowed"
        /\ IF Done(request)
           THEN /\ racers' = [racers EXCEPT ![k].st = "canceled"]
                /\ UNCHANGED request
           ELSE /\ racers' = [racers EXCEPT ![k].st = "proceed"]
                /\ request' = [request EXCEPT !.connected = TRUE]
        /\ UNCHANGED <<blockVars, reader, phase, adminVars, redirectVars, roundTrips>>

\* the network refuses the connection
ConnectFails ==
    \E k \in Racers :
        /\ racers[k].st = "allowed"
        /\ racers' = [racers EXCEPT ![k].st = "failed"]
        /\ UNCHANGED <<blockVars, reader, phase, request, adminVars, redirectVars, roundTrips>>

\* the dial of a blocked attempt ends on the cancelled context
Abort ==
    \E k \in Racers :
        /\ racers[k].st = "blocked"
        /\ racers' = [racers EXCEPT ![k].st = "canceled"]
        /\ UNCHANGED <<blockVars, reader, phase, request, adminVars, redirectVars, roundTrips>>

\* the wrapped transport returns a response over a connection
Respond ==
    /\ request.st = "pending" /\ request.connected /\ ~Done(request)
    /\ request' = [request EXCEPT !.st = "done", !.outcome = "success"]
    /\ UNCHANGED <<blockVars, reader, phase, racers, adminVars, redirectVars, roundTrips>>

\* the wrapped transport returns an error
Fails ==
    /\ request.st = "pending"
    /\ Done(request) \/ \E k \in Racers : racers[k].st = "failed"
    /\ request' = [request EXCEPT !.st = "done", !.outcome = "failure"]
    /\ UNCHANGED <<blockVars, reader, phase, racers, adminVars, redirectVars, roundTrips>>

\* the request and its attempts are over; the next request may come
Finished ==
    /\ request.st = "done"
    /\ \A k \in Racers : racers[k].st \in {"idle", "proceed", "canceled", "failed"}
    /\ request' = IdleRequest
    /\ racers' = [k \in Racers |-> IdleAttempt]
    /\ UNCHANGED <<blockVars, reader, phase, adminVars, redirectVars, roundTrips>>

EgressInit ==
    /\ BlocksInit
    /\ phase = "startup"
    /\ request = IdleRequest
    /\ racers = [k \in Racers |-> IdleAttempt]
    /\ roundTrips = NoRoundTrips
    /\ AdminIdle
    /\ RedirectIdle

EgressNext ==
    \/ RemoveLocalhostBegin
    \/ RemoveLocalhostShift
    \/ RemoveLocalhostStore
    \/ UnshiftBegin
    \/ UnshiftStore
    \/ StartServing
    \/ RoundTrip
    \/ Dial
    \/ ConnectStart
    \/ Connect
    \/ ConnectFails
    \/ Abort
    \/ Respond
    \/ Fails
    \/ Finished

\* the block list is amended during startup only, then requests are served
SpecEgress == EgressInit /\ [][EgressNext]_vars

\* C10: no isPrivateIP check beside amendments sees a changed or partly changed
\* list: an address inside a range that is in the list before and after every
\* amendment running beside the check is never classified as not private.
C10_ChecksSeeWholeList ==
    (reader.pc = "done" /\ reader.covering # {}) => reader.result = "true"

(***************************************************************************)
(* Claims about the egress guard.                                          *)
(***************************************************************************)
\* the dial address cannot be split into host:port, or its host is no IP, or
\* the IP lies in the block list
MustCancel(addr) ==
    \/ SplitHostPort(addr).err
    \/ ParseIP(SplitHostPort(addr).host) = NilIP
    \/ \E i \in 1..Len(List) : Contains(List[i], ParseIP(SplitHostPort(addr).host))

Judged == {k \in Racers : racers[k].st \notin {"idle", "resolving"}}

GuardCancelsExactly ==
    /\ \A k \in Judged :
          /\ racers[k].verdict = "blocked" <=> MustCancel(racers[k].addr)
          /\ racers[k].verdict = "blocked" =>
                /\ request.cancelled
                /\ racers[k].st \in {"blocked", "canceled"}
    /\ request.st # "idle" =>
          /\ request.cancelled => \E k \in Judged : racers[k].verdict = "blocked"
          /\ request.cancelledIn = "pending" => request.outcome # "success"

AttemptSteps ==
    \A k \in Racers :
        /\ racers[k].st = "blocked" => racers'[k].st \in {"blocked", "canceled"}
        /\ racers[k].st = "canceled" => racers'[k].st \in {"canceled", "idle"}
        /\ (racers'[k].st = "proceed" /\ racers[k].st # "proceed") =>
              racers[k].st = "allowed" /\ ~request.cancelled

\* C4: for every connection attempt of a request sent through RoundTrip, the
\* ConnectStart hook cancels the request's context exactly when the dial address
\* cannot be split into host:port, or its host is no IP, or the IP lies in the
\* block list; the cancel comes before the attempt connects, the attempt goes
\* Resolving -> Blocked -> Canceled and never proceeds to connect, and from the
\* cancel on the request yields no successful response.
C4_GuardCancelsBlockedAttempts ==
    [](phase = "serving" => GuardCancelsExactly) /\ [][phase = "serving" => AttemptSteps]_vars

\* an attempt to 127.0.0.1:80 was blocked and canceled, and the request failed
C4_Witness ==
    /\ phase = "serving"
    /\ request.st = "done" /\ request.outcome = "failure"
    /\ request.cancelledIn = "pending"
    /\ \E k \in Racers :
          /\ racers[k].st = "canceled" /\ racers[k].verdict = "blocked"
          /\ racers[k].addr = <<"127", ".", "0", ".", "0", ".", "1", ":", "80">>
    /\ \E k \in Racers : racers[k].st = "canceled" /\ racers[k].verdict = "allowed"

\* the first and the last address of a range
Ends(block) ==
    {block.IP,
     [i \in 1..Len(block.IP) |->
        block.IP[i] + (255 - Mask(block.ones, i, 255))]}

IsLoopbackRange(block) == block.IP = <<127, 0, 0, 0>> /\ block.ones = 8

\* C9: after every sequence of amendments of the initial list,
\* removeLocalhostFromPrivateIPBlock has removed 127.0.0.0/8 and nothing else
\* (127.0.0.1 is not private, every other range that was in the list is still
\* there and private), and unshiftPrivateIPBlock(range) has made every address
\* of the range private and removed nothing.
C9_AmendmentsTouchOnlyTheirRange ==
    (phase = "startup" /\ writer.pc = "idle" /\ amended.op # "none") =>
        LET before == amended.before
            kept(b) == /\ \E j \in 1..Len(List) : List[j] = b
                       /\ \A ip \in Ends(b) : isPrivateIP(List, ip)
        IN  IF amended.op = "remove"
            THEN /\ ~isPrivateIP(List, ParseIP(<<"127", ".", "0", ".", "0", ".", "1">>))
                 /\ \A i \in 1..Len(before) :
                       ~IsLoopbackRange(before[i]) => kept(before[i])
            ELSE /\ \A ip \in Ends(amended.arg) : isPrivateIP(List, ip)
                 /\ \A i \in 1..Len(before) : kept(before[i])

(***************************************************************************)
(* The fixed table: isPrivateIP on the block list that init() leaves,      *)
(* before any amendment.                                                   *)
(***************************************************************************)
\* the hosts that are classified
ClassifiedHosts ==
    {<<a, ".", b, ".", c, ".", d>> :
        a \in {"8", "10", "100", "127", "169", "172", "192", "198", "203"},
        b \in {"0", "15", "16", "18", "19", "31", "32", "51", "63", "64", "127",
               "128", "168", "254"},
        c \in {"0", "2", "100", "113"}, d \in {"1", "254"}}
    \cup {<<"10", ".", "1", ".", "2", ".", "3">>,
          <<"172", ".", "16", ".", "0", ".", "5">>,
          <<"192", ".", "168", ".", "1", ".", "1">>,
          <<"169", ".", "254", ".", "169", ".", "254">>,
          <<"8", ".", "8", ".", "8", ".", "8">>,
          <<"::", "1">>, <<"::", "2">>, <<"fe80", "::", "1">>,
          <<"febf", "::", "1">>, <<"fec0", "::", "1">>, <<"fc00", "::", "1">>,
          <<"fd00", "::", "1">>, <<"2001", ":", "db8", "::", "1">>,
          <<"::", "ffff", ":", "127", ".", "0", ".", "0", ".", "1">>}

\* isPrivateIP(net.ParseIP(host)) during startup, before any amendment
IsPrivateIP ==
    /\ phase = "startup" /\ writer.pc = "idle" /\ amended.count = 0
    /\ reader.pc = "idle"
    /\ \E host \in ClassifiedHosts :
          reader' = [pc |-> "checked", host |-> host, ip |-> ParseIP(host),
                     result |-> isPrivateIP(List, ParseIP(host))]
    /\ UNCHANGED <<blockVars, servingVars, adminVars, redirectVars, roundTrips>>

TableInit ==
    /\ BlocksInit
    /\ phase = "startup"
    /\ request = [st |-> "idle"]
    /\ racers = <<>>
    /\ roundTrips = NoRoundTrips
    /\ AdminIdle
    /\ RedirectIdle

\* one classification on the fixed table
SpecTable == TableInit /\ [][IsPrivateIP]_vars

\* the four bytes of an IPv4 address, also of one given as an IPv6 text
Quad(ip) == IF SubSeq(ip, 1, 12) = v4InV6Prefix THEN SubSeq(ip, 13, 16) ELSE <<>>

IsLoopback4(q) == q[1] = 127
IsRFC1918(q) ==
    \/ q[1] = 10
    \/ q[1] = 172 /\ q[2] \in 16..31
    \/ q[1] = 192 /\ q[2] = 168
IsSharedAddressSpace(q) == q[1] = 100 /\ q[2] \in 64..127
\* 198.18.0.0/15 of RFC 2544, and the TEST-NET ranges of RFC 5737
IsBenchmarkingOrTesting(q) ==
    \/ q[1] = 198 /\ q[2] \in 18..19
    \/ q[1] = 192 /\ q[2] = 0 /\ q[3] = 2
    \/ q[1] = 198 /\ q[2] = 51 /\ q[3] = 100
    \/ q[1] = 203 /\ q[2] = 0 /\ q[3] = 113
IsLinkLocal4(q) == q[1] = 169 /\ q[2] = 254

IsLoopback6(ip) == ip = [i \in 1..16 |-> IF i = 16 THEN 1 ELSE 0]
IsLinkLocal6(ip) == ip[1] = 254 /\ ip[2] \in 128..191
IsUniqueLocal6(ip) == ip[1] \in 252..253

\* the address is in a category that the table is documented to cover, the
\* category of benchmarking and testing ranges aside
InCodedCategory(ip) ==
    IF Quad(ip) # <<>>
    THEN \/ IsLoopback4(Quad(ip)) \/ IsRFC1918(Quad(ip))
         \/ IsSharedAddressSpace(Quad(ip)) \/ IsLinkLocal4(Quad(ip))
    ELSE IsLoopback6(ip) \/ IsLinkLocal6(ip) \/ IsUniqueLocal6(ip)

InDocumentedCategory(ip) ==
    \/ InCodedCategory(ip)
    \/ Quad(ip) # <<>> /\ IsBenchmarkingOrTesting(Quad(ip))

\* the hosts of the model are texts of addresses
HostsAreAddresses == \A host \in ClassifiedHosts : Len(ParseIP(host)) = 16

\* C16: after initialization and before any amendment isPrivateIP is true for
\* every address of each documented category of the fixed table (IPv4
\* loopback, RFC1918, shared-address space, benchmarking/testing ranges, IPv4
\* link-local, IPv6 loopback, IPv6 link-local, IPv6 unique-local), and false
\* for the public address 8.8.8.8.
C16_TableCoversDocumentedCategories ==
    reader.pc = "checked" =>
       /\ InDocumentedCategory(reader.ip) => reader.result
       /\ reader.host = <<"8", ".", "8", ".", "8", ".", "8">> => ~reader.result

(***************************************************************************)
(* RoundTrip calls side by side.  Each call makes its own context with     *)
(* context.WithCancel; the ConnectStart hook of the call is a closure over *)
(* the cancel function of that context.  roundTrips.ctxs holds the         *)
(* contexts in the order they were made, roundTrips.calls the calls.       *)
(***************************************************************************)
Requests == {1, 2}

CancelAddrs ==
    {<<"127", ".", "0", ".", "0", ".", "1", ":", "80">>,
     <<"localhost", ":", "80">>,
     <<"8", ".", "8", ".", "8", ".", "8", ":", "443">>}

\* a context that is not done; `calls` counts the calls of its cancel function
\* and `by` holds the requests whose hooks called it
NewCtx == [done |-> FALSE, err |-> "", calls |-> 0, by |-> {}, after |-> FALSE]

\* context.WithCancel that hands out the cancel function of the first context
WithCancelShared(ctxs) ==
    [ctxs |-> IF ctxs = <<>> THEN <<NewCtx>> ELSE ctxs, ctx |-> 1]

\* context.WithCancel: a new context and its cancel function
WithCancel(ctxs) == [ctxs |-> Append(ctxs, NewCtx), ctx |-> Len(ctxs) + 1]

\* cancel(): the first call ends the context with context.Canceled, a later
\* call does nothing; r is the request whose hook calls, st its state
Cancel(ctx, r, st) ==
    [done |-> TRUE, err |-> "context canceled", calls |-> ctx.calls + 1,
     by |-> ctx.by \cup {r}, after |-> ctx.after \/ st = "done"]

IdleRoundTrip == [st |-> "idle"]

cancelFrame == <<blockVars, reader, servingVars, adminVars, redirectVars>>

\* RoundTrip of request r up to the call of the wrapped transport
RoundTripOf(r) ==
    /\ roundTrips.calls[r].st = "idle"
    /\ \E made \in {WithCancel(roundTrips.ctxs)} :
          roundTrips' =
             [ctxs |-> made.ctxs,
              calls |-> [roundTrips.calls EXCEPT ![r] =
                           [st |-> "pending", ctx |-> made.ctx, outcome |-> "none",
                            dials |-> 0, connected |-> FALSE,
                            attempts |-> [k \in Racers |-> IdleAttempt]]]]
    /\ UNCHANGED cancelFrame

\* a racer of request r starts a connection attempt, unless the context is done
DialOf(r) ==
    /\ roundTrips.calls[r].st = "pending"
    /\ ~roundTrips.ctxs[roundTrips.calls[r].ctx].done
    /\ roundTrips.calls[r].dials < MaxAttempts
    /\ \E k \in Racers, addr \in CancelAddrs :
          /\ roundTrips.calls[r].attempts[k].st = "idle"
          /\ roundTrips' = [roundTrips EXCEPT
                !.calls[r].dials = @ + 1,
                !.calls[r].attempts[k] =
                    [st |-> "resolving", addr |-> addr, verdict |-> "none",
                     cancel |-> roundTrips.calls[r].ctx]]
    /\ UNCHANGED cancelFrame

\* the hook of an attempt of request r runs, also when r has been answered
ConnectStartOf(r) ==
    /\ roundTrips.calls[r].st # "idle"
    /\ \E k \in Racers :
          /\ roundTrips.calls[r].attempts[k].st = "resolving"
          /\ \E decision \in {connectStart(List, roundTrips.calls[r].attempts[k].addr)},
                c \in {roundTrips.calls[r].attempts[k].cancel} :
                roundTrips' =
                   IF decision = "cancel"
                   THEN [roundTrips EXCEPT
                           !.ctxs[c] = Cancel(@, r, roundTrips.calls[r].st),
                           !.calls[r].attempts[k].st = "canceled",
                           !.calls[r].attempts[k].verdict = "blocked"]
                   ELSE [roundTrips EXCEPT
                           !.calls[r].attempts[k].st = "allowed",
                           !.calls[r].attempts[k].verdict = "allowed"]
    /\ UNCHANGED cancelFrame

\* an allowed attempt of request r connects, unless the context is done
ConnectOf(r) ==
    /\ roundTrips.calls[r].st # "idle"
    /\ \E k \in Racers :
          /\ roundTrips.calls[r].attempts[k].st = "allowed"
          /\ roundTrips' =
                IF roundTrips.ctxs[roundTrips.calls[r].ctx].done
                THEN [roundTrips EXCEPT !.calls[r].attempts[k].st = "canceled"]
                ELSE [roundTrips EXCEPT !.calls[r].attempts[k].st = "proceed",
                                        !.calls[r].connected = TRUE]
    /\ UNCHANGED cancelFrame

\* the wrapped transport returns the response of request r
RespondOf(r) ==
    /\ roundTrips.calls[r].st = "pending"
    /\ roundTrips.calls[r].connected
    /\ ~roundTrips.ctxs[roundTrips.calls[r].ctx].done
    /\ roundTrips' = [roundTrips EXCEPT !.calls[r].st = "done",
                                        !.calls[r].outcome = "success"]
    /\ UNCHANGED cancelFrame

\* the wrapped transport returns the error of the context of request r
FailsOf(r) ==
    /\ roundTrips.calls[r].st = "pending"
    /\ roundTrips.ctxs[roundTrips.calls[r].ctx].done
    /\ roundTrips' = [roundTrips EXCEPT
          !.calls[r].st = "done",
          !.calls[r].outcome = roundTrips.ctxs[roundTrips.calls[r].ctx].err]
    /\ UNCHANGED cancelFrame

CancelInit ==
    /\ BlocksInit
    /\ phase = "serving"
    /\ request = IdleRequest
    /\ racers = [k \in Racers |-> IdleAttempt]
    /\ roundTrips = [ctxs |-> <<>>, calls |-> [r \in Requests |-> IdleRoundTrip]]
    /\ AdminIdle
    /\ RedirectIdle

CancelNext ==
    \E r \in Requests :
       \/ RoundTripOf(r)
       \/ DialOf(r)
       \/ ConnectStartOf(r)
       \/ ConnectOf(r)
       \/ RespondOf(r)
       \/ FailsOf(r)

\* two requests through the guard side by side
SpecCancel == CancelInit /\ [][CancelNext]_vars

\* the requests that have called RoundTrip
Started == {r \in Requests : roundTrips.calls[r].st # "idle"}

\* the attempts of request r whose hook called cancel()
BlockedAttempts(r) ==
    {k \in Racers : /\ roundTrips.calls[r].attempts[k].st # "idle"
                    /\ roundTrips.calls[r].attempts[k].verdict = "blocked"}

\* the context of request r
CtxOf(r) == roundTrips.ctxs[roundTrips.calls[r].ctx]

\* C20: cancellation by the guard is idempotent: when several attempts of a
\* request hit a blocking condition, each hook calls the cancel function of
\* that request's context, once per blocked attempt and without a fault; the
\* context ends once, with context.Canceled, and a request cancelled while it
\* was pending ends with that error and never with a response; a cancel after
\* the request has finished leaves its outcome and every other request's
\* context alone.
C20_CancelIsIdempotent ==
    \A r \in Started :
       /\ \A k \in Racers :
             roundTrips.calls[r].attempts[k].st # "idle" =>
                roundTrips.calls[r].attempts[k].cancel = roundTrips.calls[r].ctx
       /\ \A q \in Started \ {r} : roundTrips.calls[q].ctx # roundTrips.calls[r].ctx
       /\ CtxOf(r).calls = Cardinality(BlockedAttempts(r))
       /\ CtxOf(r).by \subseteq {r}
       /\ CtxOf(r).done <=> BlockedAttempts(r) # {}
       /\ CtxOf(r).done => CtxOf(r).err = "context canceled"
       /\ roundTrips.calls[r].st = "done" =>
             /\ roundTrips.calls[r].outcome \in {"success", "context canceled"}
             /\ roundTrips.calls[r].outcome = "success" =>
                   (CtxOf(r).done => CtxOf(r).after)

\* the first request was cancelled twice and ended with context.Canceled; the
\* second got its response, and a late hook then cancelled its context
C20_Witness ==
    /\ Started = Requests
    /\ roundTrips.calls[1].st = "done"
    /\ roundTrips.calls[1].outcome = "context canceled"
    /\ CtxOf(1).calls = 2 /\ ~CtxOf(1).after
    /\ roundTrips.calls[2].st = "done"
    /\ roundTrips.calls[2].outcome = "success"
    /\ CtxOf(2).calls = 1 /\ CtxOf(2).after

====
